---------------------------- MODULE Spec2Model ----------------------------
(***************************************************************************)
(* Model of the grid placement engine of nodus-community                   *)
(* (src-tauri/grid-engine-wasm/src/lib.rs): the occupancy tracker, the     *)
(* compaction (optimize_layout), the drag-time conflict resolver           *)
(* (resolve_conflicts) and the best-position finder (find_best_position).  *)
(*                                                                         *)
(* The engine is a set of pure functions.  The state machine below draws   *)
(* the caller's widget list and grid configuration from bounded sets and   *)
(* applies one exported function per step, recording what it returned.     *)
(***************************************************************************)
EXTENDS Integers, Sequences, FiniteSets, TLC

\* ------------------------------------------------------------------------
\* Bounds of the model
\* ------------------------------------------------------------------------
MaxWidgets == 3      \* longest widget list the caller passes
MaxX       == 1      \* x of an input widget ranges over -1..MaxX
MaxY       == 2      \* y of an input widget ranges over -1..MaxY
MaxW       == 2      \* w of a widget ranges over 1..MaxW
MaxH       == 2      \* h of a widget ranges over 1..MaxH
MaxColumns == 2      \* config.columns ranges over 1..MaxColumns

\* The row limit of the best-position scan ("for y in 0..1000").
SearchRows == 1000

\* Option::None of Widget.original_position
None == <<>>

\* ------------------------------------------------------------------------
\* 1. Data models
\* ------------------------------------------------------------------------
Position(x, y, w, h) == [x |-> x, y |-> y, w |-> w, h |-> h]

\* A widget as it crosses the JS boundary: the two runtime-only fields are
\* #[serde(skip)] and are not part of the wire value.
JsWidget(id, position, locked) ==
    [id |-> id, position |-> position, locked |-> locked]

GridConfig(columns, gap, float, static_grid) ==
    [columns |-> columns, gap |-> gap, float |-> float, static_grid |-> static_grid]

\* Deserialization of one widget: skipped fields take their Default.
parse_widget(js) ==
    [id |-> js.id, position |-> js.position, locked |-> js.locked,
     is_dragged |-> FALSE, original_position |-> None]

\* Serialization of one widget: skipped fields are dropped.
serialize_widget(b) ==
    [id |-> b.id, position |-> b.position, locked |-> b.locked]

parse_from_js(js_widgets) ==
    [i \in 1..Len(js_widgets) |-> parse_widget(js_widgets[i])]

serialize_to_js(widgets) ==
    [i \in 1..Len(widgets) |-> serialize_widget(widgets[i])]

\* ------------------------------------------------------------------------
\* 2. Layout engine
\* ------------------------------------------------------------------------
OccupiedGrid_new(columns) == [positions |-> {}, columns |-> columns]

\* The cells of the rectangle, as the two nested ranges of the code
\* enumerate them (an empty range when w <= 0 or h <= 0).
cells(pos) ==
    {<<x, y>> : x \in pos.x..(pos.x + pos.w - 1), y \in pos.y..(pos.y + pos.h - 1)}

\* Mutant of can_place_at: the test "pos.y < 0" is left out.
can_place_at_any_row(grid, pos) ==
    IF pos.x < 0 \/ (pos.x + pos.w > grid.columns)
    THEN FALSE
    ELSE \A c \in cells(pos) : c \notin grid.positions

can_place_at(grid, pos) ==
    IF pos.x < 0 \/ pos.y < 0 \/ (pos.x + pos.w > grid.columns)
    THEN FALSE
    ELSE \A c \in cells(pos) : c \notin grid.positions

register_occupied(grid, pos) ==
    [grid EXCEPT !.positions = @ \cup cells(pos)]

\* Mutant of find_highest_position: "if" for "while", one row at most.
find_one_row_higher(grid, pos) ==
    IF pos.y > 0 /\ can_place_at(grid, [pos EXCEPT !.y = pos.y - 1])
    THEN [pos EXCEPT !.y = pos.y - 1]
    ELSE pos

RECURSIVE find_highest_position(_, _)
find_highest_position(grid, pos) ==
    IF pos.y > 0
    THEN LET test_pos == [pos EXCEPT !.y = pos.y - 1]
         IN  IF can_place_at(grid, test_pos)
             THEN find_highest_position(grid, test_pos)
             ELSE pos
    ELSE pos

\* One row of the scan ("for x in 0..(self.columns - pos.w + 1)"): the x that
\* can be placed in row y.  The loop returns the first of them.
row_candidates(grid, pos, y) ==
    {x \in 0..(grid.columns - pos.w) :
        can_place_at(grid, [pos EXCEPT !.x = x, !.y = y])}

\* Mutant of Minimum: the last element of the range, not the first.
Maximum(S) == CHOOSE m \in S : \A n \in S : m >= n

Minimum(S) == CHOOSE m \in S : \A n \in S : m <= n

\* Mutant of fallback_position: "x: 0" is left out, x comes from "..*pos".
fallback_position_own_x(pos) == [pos EXCEPT !.y = SearchRows]

\* The fallback behind the loops
fallback_position(pos) == [pos EXCEPT !.x = 0, !.y = SearchRows]

\* The first row from y on that has an x that can be placed (there is one)
RECURSIVE first_free_row(_, _, _)
first_free_row(grid, pos, y) ==
    IF row_candidates(grid, pos, y) # {} THEN y ELSE first_free_row(grid, pos, y + 1)

\* Mutant of scan_rows: the position returned is one row off.
scan_rows_one_row_off(grid, pos, y) ==
    IF \E r \in y..(SearchRows - 1) : row_candidates(grid, pos, r) # {}
    THEN LET first == first_free_row(grid, pos, y)
         IN  [pos EXCEPT !.x = Minimum(row_candidates(grid, pos, first)), !.y = first + 1]
    ELSE fallback_position(pos)

\* The outer loop from row y on ("for y in 0..1000"): the first row with an x
\* that can be placed and the first such x of it, the fallback when the loop
\* runs out of rows.
scan_rows(grid, pos, y) ==
    IF \E r \in y..(SearchRows - 1) : row_candidates(grid, pos, r) # {}
    THEN LET first == first_free_row(grid, pos, y)
         IN  [pos EXCEPT !.x = Minimum(row_candidates(grid, pos, first)), !.y = first]
    ELSE fallback_position(pos)

\* Rows 0..SearchRows-1 in order, each row left to right.  When the range of
\* x is empty the inner loop has no iteration in any row, so the scan falls
\* through to the fallback without testing a position.
OccupiedGrid_find_best_position(grid, widget) ==
    LET pos == widget.position
    IN  IF grid.columns - pos.w + 1 <= 0
        THEN fallback_position(pos)
        ELSE scan_rows(grid, pos, 0)

\* Mutant of blocks_collide: the first test compares with the left edge of b.
blocks_collide_left_edge(a, b) ==
    ~(a.x >= b.x \/ (a.x + a.w) <= b.x
      \/ a.y >= (b.y + b.h) \/ (a.y + a.h) <= b.y)

\* Mutant of blocks_collide: the comparisons are strict, so that rectangles
\* that touch count as colliding.
blocks_collide_touching(a, b) ==
    ~(a.x > (b.x + b.w) \/ (a.x + a.w) < b.x
      \/ a.y > (b.y + b.h) \/ (a.y + a.h) < b.y)

blocks_collide(a, b) ==
    ~(a.x >= (b.x + b.w) \/ (a.x + a.w) <= b.x
      \/ a.y >= (b.y + b.h) \/ (a.y + a.h) <= b.y)


\* ------------------------------------------------------------------------
\* Sorting (Vec::sort_by and sort_by_key are stable)
\* ------------------------------------------------------------------------
\* Mutant of yx_greater: the comparison stops at y.
y_greater(a, b) == a.position.y > b.position.y

\* a.position.y.cmp(&b.position.y).then(a.position.x.cmp(&b.position.x)) is Greater
yx_greater(a, b) ==
    \/ a.position.y > b.position.y
    \/ (a.position.y = b.position.y /\ a.position.x > b.position.x)

\* Mutant of insert_yx: e goes in front of the elements with its own key.
RECURSIVE insert_yx_before_ties(_, _)
insert_yx_before_ties(sorted, e) ==
    IF sorted = <<>> THEN <<e>>
    ELSE IF ~yx_greater(e, Head(sorted))
         THEN <<e>> \o sorted
         ELSE <<Head(sorted)>> \o insert_yx_before_ties(Tail(sorted), e)

\* e inserted behind every element that is not Greater than it
RECURSIVE insert_yx(_, _)
insert_yx(sorted, e) ==
    IF sorted = <<>> THEN <<e>>
    ELSE IF yx_greater(Head(sorted), e)
         THEN <<e>> \o sorted
         ELSE <<Head(sorted)>> \o insert_yx(Tail(sorted), e)

\* Mutant of sort_by_yx: the list is left in the order of the input.
sort_by_yx_skipped(widgets) == widgets

RECURSIVE sort_by_yx(_)
sort_by_yx(widgets) ==
    IF widgets = <<>> THEN <<>>
    ELSE insert_yx(sort_by_yx(SubSeq(widgets, 1, Len(widgets) - 1)),
                   widgets[Len(widgets)])

RECURSIVE insert_index_by_y(_, _, _)
insert_index_by_y(widgets, sorted, i) ==
    IF sorted = <<>> THEN <<i>>
    ELSE IF widgets[Head(sorted)].position.y > widgets[i].position.y
         THEN <<i>> \o sorted
         ELSE <<Head(sorted)>> \o insert_index_by_y(widgets, Tail(sorted), i)

RECURSIVE sort_indices_by_y(_, _)
sort_indices_by_y(widgets, indices) ==
    IF indices = <<>> THEN <<>>
    ELSE insert_index_by_y(widgets,
                           sort_indices_by_y(widgets, SubSeq(indices, 1, Len(indices) - 1)),
                           indices[Len(indices)])

\* Mutant of movable_indices: the filter forgets "i != dragged_index".
RECURSIVE movable_indices_with_dragged(_, _, _)
movable_indices_with_dragged(widgets, dragged_index, i) ==
    IF i > Len(widgets) THEN <<>>
    ELSE (IF ~widgets[i].locked THEN <<i>> ELSE <<>>)
         \o movable_indices_with_dragged(widgets, dragged_index, i + 1)

\* (0..widgets.len()).filter(|&i| i != dragged_index && !widgets[i].locked)
RECURSIVE movable_indices(_, _, _)
movable_indices(widgets, dragged_index, i) ==
    IF i > Len(widgets) THEN <<>>
    ELSE (IF i # dragged_index /\ ~widgets[i].locked THEN <<i>> ELSE <<>>)
         \o movable_indices(widgets, dragged_index, i + 1)

\* ------------------------------------------------------------------------
\* 3. Exported functions
\* ------------------------------------------------------------------------
\* Mutant of register_locked: every widget is registered where it starts.
RECURSIVE register_locked_or_not(_, _, _)
register_locked_or_not(occupied, widgets, i) ==
    IF i > Len(widgets) THEN occupied
    ELSE register_locked_or_not(register_occupied(occupied, widgets[i].position),
                                widgets, i + 1)

\* Mutant of register_locked: the locked widgets are not registered.
register_locked_never(occupied, widgets, i) == occupied

\* for block in widgets.iter().filter(|b| b.locked) { register_occupied }
RECURSIVE register_locked(_, _, _)
register_locked(occupied, widgets, i) ==
    IF i > Len(widgets) THEN occupied
    ELSE register_locked(IF widgets[i].locked
                         THEN register_occupied(occupied, widgets[i].position)
                         ELSE occupied,
                         widgets, i + 1)

\* Mutant of compact_unlocked: the loop forgets the filter on "locked".
RECURSIVE compact_every_widget(_, _, _)
compact_every_widget(widgets, occupied, i) ==
    IF i > Len(widgets) THEN widgets
    ELSE LET new_pos == find_highest_position(occupied, widgets[i].position)
         IN  compact_every_widget([widgets EXCEPT ![i].position = new_pos],
                                  register_occupied(occupied, new_pos), i + 1)

\* for block in widgets.iter_mut().filter(|b| !b.locked) { pull up, register }
RECURSIVE compact_unlocked(_, _, _)
compact_unlocked(widgets, occupied, i) ==
    IF i > Len(widgets) THEN widgets
    ELSE IF widgets[i].locked
         THEN compact_unlocked(widgets, occupied, i + 1)
         ELSE LET new_pos == find_highest_position(occupied, widgets[i].position)
              IN  compact_unlocked([widgets EXCEPT ![i].position = new_pos],
                                   register_occupied(occupied, new_pos), i + 1)

IntMax(a, b) == IF a >= b THEN a ELSE b
IntMin(a, b) == IF a <= b THEN a ELSE b

\* Mutant of float_clamp: the clamp of x drops ".max(0)".
float_clamp_no_lower(block, columns) ==
    IF block.locked THEN block
    ELSE [block EXCEPT
            !.position.x = IntMin(block.position.x, columns - block.position.w),
            !.position.y = IntMax(block.position.y, 0)]

\* Mutant of float_clamp: y is clamped like x, into the rows above "columns".
float_clamp_y_too(block, columns) ==
    IF block.locked THEN block
    ELSE [block EXCEPT
            !.position.x = IntMin(IntMax(block.position.x, 0), columns - block.position.w),
            !.position.y = IntMin(IntMax(block.position.y, 0), columns - block.position.h)]

\* The float branch: bounds are validated, nothing is moved otherwise.
float_clamp(block, columns) ==
    IF block.locked THEN block
    ELSE [block EXCEPT
            !.position.x = IntMin(IntMax(block.position.x, 0), columns - block.position.w),
            !.position.y = IntMax(block.position.y, 0)]

optimize_layout(js_widgets, js_config) ==
    LET widgets == parse_from_js(js_widgets)
        config  == js_config
    IN  IF config.float
        THEN serialize_to_js([i \in 1..Len(widgets) |->
                                 float_clamp(widgets[i], config.columns)])
        ELSE LET sorted   == sort_by_yx(widgets)
                 occupied == register_locked(OccupiedGrid_new(config.columns), sorted, 1)
             IN  serialize_to_js(compact_unlocked(sorted, occupied, 1))

\* Mutant of dragged_position: an id that is not found selects the last widget.
dragged_position_or_last(widgets, dragged_widget_id) ==
    LET hits == {i \in 1..Len(widgets) : widgets[i].id = dragged_widget_id}
    IN  IF hits = {} THEN Len(widgets) ELSE Minimum(hits)

\* widgets.iter().position(|b| b.id == dragged_widget_id); 0 stands for None
dragged_position(widgets, dragged_widget_id) ==
    LET hits == {i \in 1..Len(widgets) : widgets[i].id = dragged_widget_id}
    IN  IF hits = {} THEN 0 ELSE Minimum(hits)

\* Mutant of push_down: the collision test is dropped, every listed widget
\* above the row below the dragged widget is pushed.
RECURSIVE push_down_untested(_, _, _, _)
push_down_untested(widgets, sorted_indices, k, dragged_pos) ==
    IF k > Len(sorted_indices) THEN widgets
    ELSE LET index == sorted_indices[k]
             block == widgets[index]
             new_y == dragged_pos.y + dragged_pos.h
         IN  push_down_untested(IF new_y > block.position.y
                                THEN [widgets EXCEPT ![index].position.y = new_y]
                                ELSE widgets,
                                sorted_indices, k + 1, dragged_pos)

\* The push loop over sorted_indices[k..]
RECURSIVE push_down(_, _, _, _)
push_down(widgets, sorted_indices, k, dragged_pos) ==
    IF k > Len(sorted_indices) THEN widgets
    ELSE LET index == sorted_indices[k]
             block == widgets[index]
             new_y == dragged_pos.y + dragged_pos.h
         IN  push_down(IF blocks_collide(block.position, dragged_pos)
                          /\ new_y > block.position.y
                       THEN [widgets EXCEPT ![index].position.y = new_y]
                       ELSE widgets,
                       sorted_indices, k + 1, dragged_pos)

\* Mutant of compact_indexed: the new position is written at the loop
\* counter, not at the index it was computed for.
RECURSIVE compact_indexed_at_counter(_, _, _, _)
compact_indexed_at_counter(widgets, occupied, compact_indices, k) ==
    IF k > Len(compact_indices) THEN widgets
    ELSE LET index   == compact_indices[k]
             new_pos == find_highest_position(occupied, widgets[index].position)
         IN  compact_indexed_at_counter([widgets EXCEPT ![k].position = new_pos],
                                        register_occupied(occupied, new_pos),
                                        compact_indices, k + 1)

\* The compact loop over compact_indices[k..]
RECURSIVE compact_indexed(_, _, _, _)
compact_indexed(widgets, occupied, compact_indices, k) ==
    IF k > Len(compact_indices) THEN widgets
    ELSE LET index   == compact_indices[k]
             new_pos == find_highest_position(occupied, widgets[index].position)
         IN  compact_indexed([widgets EXCEPT ![index].position = new_pos],
                             register_occupied(occupied, new_pos),
                             compact_indices, k + 1)

\* The widget list after the push phase (dragged_index > 0)
push_phase(widgets, dragged_index) ==
    LET marked         == [widgets EXCEPT ![dragged_index].is_dragged = TRUE]
        dragged_pos    == marked[dragged_index].position
        sorted_indices == sort_indices_by_y(marked, movable_indices(marked, dragged_index, 1))
    IN  push_down(marked, sorted_indices, 1, dragged_pos)

\* Mutant of compact_phase: the grid is not seeded with dragged_pos.
compact_phase_unreserved(pushed, columns, dragged_index) ==
    LET occupied        == register_locked(OccupiedGrid_new(columns), pushed, 1)
        compact_indices == sort_indices_by_y(pushed, movable_indices(pushed, dragged_index, 1))
    IN  compact_indexed(pushed, occupied, compact_indices, 1)

\* The widget list after the compact phase, from the list the push phase left
compact_phase(pushed, columns, dragged_index) ==
    LET dragged_pos     == pushed[dragged_index].position
        occupied        == register_locked(
                               register_occupied(OccupiedGrid_new(columns), dragged_pos),
                               pushed, 1)
        compact_indices == sort_indices_by_y(pushed, movable_indices(pushed, dragged_index, 1))
    IN  compact_indexed(pushed, occupied, compact_indices, 1)

resolve_conflicts(js_widgets, js_config, dragged_widget_id) ==
    LET widgets       == parse_from_js(js_widgets)
        config        == js_config
        dragged_index == dragged_position(widgets, dragged_widget_id)
    IN  IF dragged_index = 0
        THEN optimize_layout(serialize_to_js(widgets), js_config)
        ELSE serialize_to_js(
                 compact_phase(push_phase(widgets, dragged_index),
                               config.columns, dragged_index))

\* Mutant of register_all: only the locked widgets are registered, as in the
\* two other functions.
register_all_locked_only(occupied, widgets, i) ==
    register_locked(occupied, widgets, i)

\* for block in widgets { occupied.register_occupied(&block.position) }
RECURSIVE register_all(_, _, _)
register_all(occupied, widgets, i) ==
    IF i > Len(widgets) THEN occupied
    ELSE register_all(register_occupied(occupied, widgets[i].position), widgets, i + 1)

\* Mutant of find_best_position: the gap is taken off the columns.
find_best_position_less_gap(js_widgets, js_new_widget, js_config) ==
    LET widgets    == parse_from_js(js_widgets)
        new_widget == parse_widget(js_new_widget)
        config     == js_config
        occupied   == register_all(OccupiedGrid_new(config.columns - config.gap), widgets, 1)
    IN  OccupiedGrid_find_best_position(occupied, new_widget)

find_best_position(js_widgets, js_new_widget, js_config) ==
    LET widgets    == parse_from_js(js_widgets)
        new_widget == parse_widget(js_new_widget)
        config     == js_config
        occupied   == register_all(OccupiedGrid_new(config.columns), widgets, 1)
    IN  OccupiedGrid_find_best_position(occupied, new_widget)


\* ------------------------------------------------------------------------
\* The arithmetic of the engine on i32: which calls evaluate a sum or a
\* difference that leaves the signed 32-bit range (a panic where overflow is
\* checked, a wrapped value where it is not)
\* ------------------------------------------------------------------------
I32Max == 2147483647
I32Min == -I32Max - 1

\* a + b is not an i32
add_overflows(a, b) == IF b >= 0 THEN a > I32Max - b ELSE a < I32Min - b

\* a - b is not an i32
sub_overflows(a, b) == IF b >= 0 THEN a < I32Min + b ELSE a > I32Max + b

\* register_occupied: the range pos.y..(pos.y + pos.h) and, in each row of
\* it, the range pos.x..(pos.x + pos.w)
register_overflows(pos) ==
    \/ add_overflows(pos.y, pos.h)
    \/ (pos.h > 0 /\ add_overflows(pos.x, pos.w))

\* can_place_at: pos.x + pos.w behind "pos.x < 0 || pos.y < 0 ||", then the
\* two ranges
can_place_overflows(grid, pos) ==
    /\ pos.x >= 0 /\ pos.y >= 0
    /\ \/ add_overflows(pos.x, pos.w)
       \/ (pos.x + pos.w <= grid.columns /\ add_overflows(pos.y, pos.h))

\* find_highest_position: pos.y - 1 behind "pos.y > 0", and each test
RECURSIVE find_highest_overflows(_, _)
find_highest_overflows(grid, pos) ==
    /\ pos.y > 0
    /\ LET test_pos == [pos EXCEPT !.y = pos.y - 1]
       IN  \/ can_place_overflows(grid, test_pos)
           \/ (can_place_at(grid, test_pos) /\ find_highest_overflows(grid, test_pos))

\* blocks_collide: the four sums, each behind the comparisons before it
collide_overflows(a, b) ==
    \/ add_overflows(b.x, b.w)
    \/ /\ a.x < b.x + b.w
       /\ \/ add_overflows(a.x, a.w)
          \/ /\ a.x + a.w > b.x
             /\ \/ add_overflows(b.y, b.h)
                \/ (a.y < b.y + b.h /\ add_overflows(a.y, a.h))

\* The registration of the locked widgets
locked_overflows(widgets) ==
    \E i \in 1..Len(widgets) : widgets[i].locked /\ register_overflows(widgets[i].position)

\* The compact loop over indices[k..]: the pull and the registration of
\* each widget in the grid the widgets before it left
RECURSIVE compact_overflows(_, _, _, _)
compact_overflows(widgets, occupied, indices, k) ==
    /\ k <= Len(indices)
    /\ LET pos == widgets[indices[k]].position
       IN  \/ find_highest_overflows(occupied, pos)
           \/ LET new_pos == find_highest_position(occupied, pos)
              IN  \/ register_overflows(new_pos)
                  \/ compact_overflows(widgets, register_occupied(occupied, new_pos),
                                       indices, k + 1)

optimize_layout_overflows(js_widgets, js_config) ==
    LET widgets == parse_from_js(js_widgets)
        config  == js_config
    IN  IF config.float
        THEN \E i \in 1..Len(widgets) :
                 ~widgets[i].locked /\ sub_overflows(config.columns, widgets[i].position.w)
        ELSE LET sorted == sort_by_yx(widgets)
             IN  \/ locked_overflows(sorted)
                 \/ compact_overflows(sorted,
                                      register_locked(OccupiedGrid_new(config.columns), sorted, 1),
                                      movable_indices(sorted, 0, 1), 1)

resolve_conflicts_overflows(js_widgets, js_config, dragged_widget_id) ==
    LET widgets       == parse_from_js(js_widgets)
        config        == js_config
        dragged_index == dragged_position(widgets, dragged_widget_id)
    IN  IF dragged_index = 0
        THEN optimize_layout_overflows(serialize_to_js(widgets), js_config)
        ELSE LET dragged_pos == widgets[dragged_index].position
             IN  \/ \E i \in 1..Len(widgets) :
                        /\ i # dragged_index /\ ~widgets[i].locked
                        /\ collide_overflows(widgets[i].position, dragged_pos)
                 \/ register_overflows(dragged_pos)
                 \/ locked_overflows(widgets)
                 \/ LET pushed == push_phase(widgets, dragged_index)
                    IN  compact_overflows(
                            pushed,
                            register_locked(
                                register_occupied(OccupiedGrid_new(config.columns), dragged_pos),
                                pushed, 1),
                            sort_indices_by_y(pushed, movable_indices(pushed, dragged_index, 1)),
                            1)

\* The scan: self.columns - pos.w + 1, and in each row that is reached the
\* tests of its x
scan_overflows(grid, pos) ==
    \/ sub_overflows(grid.columns, pos.w)
    \/ add_overflows(grid.columns - pos.w, 1)
    \/ /\ grid.columns - pos.w + 1 > 0
       /\ \E y \in 0..(SearchRows - 1) :
             /\ add_overflows(y, pos.h)
             /\ \A q \in 0..(y - 1) : row_candidates(grid, pos, q) = {}

find_best_position_overflows(js_widgets, js_new_widget, js_config) ==
    LET widgets    == parse_from_js(js_widgets)
        new_widget == parse_widget(js_new_widget)
        config     == js_config
    IN  \/ \E i \in 1..Len(widgets) : register_overflows(widgets[i].position)
        \/ scan_overflows(register_all(OccupiedGrid_new(config.columns), widgets, 1),
                          new_widget.position)


\* ------------------------------------------------------------------------
\* Deserialization of the arguments: JS values that may not have the shape
\* of the Rust type, and the exported functions as functions to a Result
\* ------------------------------------------------------------------------
JsNull == [kind |-> "null"]
JsObject(fields) == [kind |-> "object", fields |-> fields]
JsArray(items) == [kind |-> "array", items |-> items]

Ok(value) == [ok |-> TRUE, value |-> value]
Err(error) == [ok |-> FALSE, error |-> error]

\* serde on Widget: an object with the fields id, position and locked, none
\* of which has a default; the first missing field in the order of the
\* declaration is reported.
from_value_widget(js) ==
    IF js.kind # "object" THEN Err("invalid type, expected struct Widget")
    ELSE IF "id" \notin DOMAIN js.fields THEN Err("missing field id")
    ELSE IF "position" \notin DOMAIN js.fields THEN Err("missing field position")
    ELSE IF "locked" \notin DOMAIN js.fields THEN Err("missing field locked")
    ELSE Ok(JsWidget(js.fields.id, js.fields.position, js.fields.locked))

\* serde on Vec<Widget>: a sequence, the elements in order, the first
\* failure ends the parse.
from_value_widgets(js) ==
    IF js.kind # "array" THEN Err("invalid type, expected a sequence")
    ELSE LET parsed == [i \in 1..Len(js.items) |-> from_value_widget(js.items[i])]
             failed == {i \in 1..Len(parsed) : ~parsed[i].ok}
         IN  IF failed = {}
             THEN Ok([i \in 1..Len(parsed) |-> parsed[i].value])
             ELSE Err(parsed[Minimum(failed)].error)

\* serde on GridConfig: an object; every field has #[serde(default)].
from_value_config(js) ==
    IF js.kind # "object" THEN Err("invalid type, expected struct GridConfig")
    ELSE LET f == js.fields
         IN  Ok(GridConfig(IF "columns" \in DOMAIN f THEN f.columns ELSE 0,
                           IF "gap" \in DOMAIN f THEN f.gap ELSE 0,
                           IF "float" \in DOMAIN f THEN f.float ELSE FALSE,
                           IF "static_grid" \in DOMAIN f THEN f.static_grid ELSE FALSE))

\* .map_err(|e| JsValue::from_str(&format!("Deserialization error: {}", e)))
deserialization_error(parsed) ==
    IF parsed.ok THEN parsed ELSE Err(<<"Deserialization error", parsed.error>>)

\* Mutant of parse_config: a configuration that cannot be parsed is replaced
\* by the default configuration.
parse_config_or_default(js) ==
    IF from_value_config(js).ok THEN from_value_config(js) ELSE Ok(GridConfig(0, 0, FALSE, FALSE))

parse_config(js) == deserialization_error(from_value_config(js))

parse_widgets(js) == deserialization_error(from_value_widgets(js))

parse_new_widget(js) == deserialization_error(from_value_widget(js))

\* The exported functions with the "?" of their parse_from_js calls
optimize_layout_result(js_widgets, js_config) ==
    LET widgets == parse_widgets(js_widgets)
    IN  IF ~widgets.ok THEN widgets
        ELSE LET config == parse_config(js_config)
             IN  IF ~config.ok THEN config
                 ELSE Ok(optimize_layout(widgets.value, config.value))

resolve_conflicts_result(js_widgets, js_config, dragged_widget_id) ==
    LET widgets == parse_widgets(js_widgets)
    IN  IF ~widgets.ok THEN widgets
        ELSE LET config == parse_config(js_config)
             IN  IF ~config.ok THEN config
                 ELSE Ok(resolve_conflicts(widgets.value, config.value, dragged_widget_id))

find_best_position_result(js_widgets, js_new_widget, js_config) ==
    LET widgets == parse_widgets(js_widgets)
    IN  IF ~widgets.ok THEN widgets
        ELSE LET new_widget == parse_new_widget(js_new_widget)
             IN  IF ~new_widget.ok THEN new_widget
                 ELSE LET config == parse_config(js_config)
                      IN  IF ~config.ok THEN config
                          ELSE Ok(find_best_position(widgets.value, new_widget.value,
                                                     config.value))

\* ------------------------------------------------------------------------
\* The caller: inputs drawn from bounded sets, one exported call per step
\* ------------------------------------------------------------------------
VARIABLES
    js_widgets,          \* the widget list the caller passes
    js_config,           \* the grid configuration the caller passes
    op,                  \* the exported function that was called, "idle" before
    dragged_widget_id,   \* the third argument of resolve_conflicts
    js_new_widget,       \* the second argument of find_best_position
    result,              \* what the call returned
    previous,            \* the result of the first call, when the caller passed it
                         \* to optimize_layout again (None otherwise)
    storage,             \* nodus-engine: what the storage holds under grid_config:<id>
    calls,               \* nodus-engine: the grid.block.add dispatches and where they are
    loaded,              \* nodus-engine: what the last get_grid_config returned
    action_handlers,     \* ActionDispatcher: the handler registry
    middleware_stack,    \* ActionDispatcher: the middleware stack
    dispatched,          \* ActionDispatcher: the last execute_action and what it returned
    circuit_breakers,    \* AsyncOrchestrator: the circuit breaker of each operation name
    active_operations,   \* AsyncOrchestrator: the ids of the operations registered as active
    runs,                \* AsyncOrchestrator: the calls of OperationRunner::run and where they are
    now                  \* AsyncOrchestrator: the clock (Instant::now), in seconds

\* The variables of the grid engine (the WASM module) and of the host
\* (nodus-engine); a step of one leaves the other alone.
engine_vars == <<js_widgets, js_config, op, dragged_widget_id, js_new_widget, result, previous>>

command_vars == <<storage, calls, loaded, action_handlers, middleware_stack, dispatched>>

orchestrator_vars == <<circuit_breakers, active_operations, runs, now>>

host_vars == <<command_vars, orchestrator_vars>>

vars == <<engine_vars, host_vars>>

\* The orchestrator before any runner exists
OrchestratorIdle ==
    /\ circuit_breakers = None /\ active_operations = None
    /\ runs = None /\ now = None

\* The host before anything has been stored, dispatched or registered
HostIdle ==
    /\ storage = None /\ calls = None /\ loaded = None
    /\ action_handlers = None /\ middleware_stack = None /\ dispatched = None
    /\ OrchestratorIdle

\* The grid engine before any call
EngineIdle ==
    /\ js_widgets = None /\ js_config = None /\ op = "idle"
    /\ dragged_widget_id = None /\ js_new_widget = None
    /\ result = None /\ previous = None

\* Widget ids are unique (the widget at index i of the caller's list has id i);
\* MissingId is an id no widget of a list has.
MissingId == MaxWidgets + 1

\* Every position of the bounds: left of and above the grid, hanging over
\* the right edge (x + w > columns), wider than the grid (w > columns).
Positions ==
    {Position(x, y, w, h) : x \in -1..MaxX, y \in -1..MaxY, w \in 1..MaxW, h \in 1..MaxH}

\* Positions right of and below the origin, one row high
RowPositions ==
    {Position(x, y, w, 1) : x \in 0..MaxX, y \in 0..MaxY, w \in 1..MaxW}

\* The lists of n widgets over a set of positions; the widget at index i has id i.
ListsOver(n, positions) ==
    {[i \in 1..n |-> JsWidget(i, f[i][1], f[i][2])] : f \in [1..n -> positions \X BOOLEAN]}

\* A widget that fills every row of the best-position scan, or one row more
TowerPositions ==
    {Position(0, 0, MaxColumns, h) : h \in {SearchRows, SearchRows + 1}}

\* Lists shorter than MaxWidgets range over all Positions, the lists of
\* MaxWidgets widgets over the RowPositions; and the lists of one tower.
WidgetLists ==
    UNION {ListsOver(n, Positions) : n \in 0..(MaxWidgets - 1)}
    \cup ListsOver(MaxWidgets, RowPositions)
    \cup ListsOver(1, TowerPositions)

Configs ==
    {GridConfig(columns, 0, float, FALSE) : columns \in 1..MaxColumns, float \in BOOLEAN}

\* The new widget comes with a position of its own: the far corner of the
\* input positions, and for the unit widget the origin as well.
NewWidgets ==
    {JsWidget(MissingId, Position(MaxX, MaxY, w, h), FALSE) : w \in 1..MaxW, h \in 1..MaxH}
    \cup {JsWidget(MissingId, Position(0, 0, 1, 1), FALSE)}

Init ==
    /\ js_widgets \in WidgetLists
    /\ js_config \in Configs
    /\ op = "idle"
    /\ dragged_widget_id = MissingId
    /\ js_new_widget = None
    /\ result = None
    /\ previous = None
    /\ HostIdle

OptimizeLayout ==
    /\ op = "idle"
    /\ op' = "optimize_layout"
    /\ result' = optimize_layout(js_widgets, js_config)
    /\ UNCHANGED <<js_widgets, js_config, dragged_widget_id, js_new_widget, previous>>
    /\ UNCHANGED host_vars

\* The caller passes the list it got back to optimize_layout once more.
OptimizeAgain ==
    /\ op = "optimize_layout"
    /\ previous = None
    /\ previous' = result
    /\ result' = optimize_layout(result, js_config)
    /\ UNCHANGED <<js_widgets, js_config, op, dragged_widget_id, js_new_widget>>
    /\ UNCHANGED host_vars

ResolveConflicts ==
    /\ op = "idle"
    /\ \E id \in (1..Len(js_widgets)) \cup {MissingId} :
          /\ dragged_widget_id' = id
          /\ result' = resolve_conflicts(js_widgets, js_config, id)
    /\ op' = "resolve_conflicts"
    /\ UNCHANGED <<js_widgets, js_config, js_new_widget, previous>>
    /\ UNCHANGED host_vars

FindBestPosition ==
    /\ op = "idle"
    /\ \E nw \in NewWidgets :
          /\ js_new_widget' = nw
          /\ result' = find_best_position(js_widgets, nw, js_config)
    /\ op' = "find_best_position"
    /\ UNCHANGED <<js_widgets, js_config, dragged_widget_id, previous>>
    /\ UNCHANGED host_vars

Next ==
    \/ OptimizeLayout
    \/ OptimizeAgain
    \/ ResolveConflicts
    \/ FindBestPosition

Spec == Init /\ [][Next]_vars

\* ------------------------------------------------------------------------
\* The same caller with every field of the configuration varied, over
\* shorter lists
\* ------------------------------------------------------------------------
MaxGap == 1

GapConfigs ==
    {GridConfig(columns, gap, float, static_grid) :
        columns \in 1..MaxColumns, gap \in 0..MaxGap,
        float \in BOOLEAN, static_grid \in BOOLEAN}

\* Lists of at most one widget over all Positions, of two over the RowPositions
ShortLists ==
    ListsOver(0, Positions) \cup ListsOver(1, Positions) \cup ListsOver(2, RowPositions)

InitGap ==
    /\ js_widgets \in ShortLists
    /\ js_config \in GapConfigs
    /\ op = "idle"
    /\ dragged_widget_id = MissingId
    /\ js_new_widget = None
    /\ result = None
    /\ previous = None
    /\ HostIdle

SpecGap == InitGap /\ [][Next]_vars

\* ------------------------------------------------------------------------
\* The caller passing the same widgets in another order
\* ------------------------------------------------------------------------
Orders(n) == {p \in [1..n -> 1..n] : \A i, j \in 1..n : p[i] = p[j] => i = j}

Reordered(list, p) == [i \in 1..Len(list) |-> list[p[i]]]

\* optimize_layout called a second time with the widgets of the first call
\* in another order; the first result is kept for comparison.
OptimizeReordered ==
    /\ op = "optimize_layout"
    /\ previous = None
    /\ \E p \in Orders(Len(js_widgets)) :
          /\ js_widgets' = Reordered(js_widgets, p)
          /\ result' = optimize_layout(Reordered(js_widgets, p), js_config)
    /\ previous' = result
    /\ op' = "optimize_layout reordered"
    /\ UNCHANGED <<js_config, dragged_widget_id, js_new_widget>>
    /\ UNCHANGED host_vars

NextOrder ==
    \/ OptimizeLayout
    \/ OptimizeReordered

SpecOrder == Init /\ [][NextOrder]_vars

\* ------------------------------------------------------------------------
\* The caller at the edges of i32
\* ------------------------------------------------------------------------
\* The outcome of a call: whether its arithmetic stayed in range, and the
\* value it returns when it did
Outcome(overflow, value) ==
    [overflow |-> overflow, value |-> IF overflow THEN None ELSE value]

\* Positions at the edges of i32
EdgePositions ==
    {Position(x, y, w, h) : x \in {0, I32Max}, y \in {0, 1}, w \in 1..MaxW, h \in 1..MaxH}
    \cup {Position(I32Max, I32Max, w, h) : w \in 1..MaxW, h \in 1..MaxH}

EdgeLists == UNION {ListsOver(n, EdgePositions) : n \in 0..2}

EdgeConfigs ==
    {GridConfig(columns, 0, float, FALSE) : columns \in {MaxColumns, I32Min}, float \in BOOLEAN}

InitEdge ==
    /\ js_widgets \in EdgeLists
    /\ js_config \in EdgeConfigs
    /\ op = "idle"
    /\ dragged_widget_id = MissingId
    /\ js_new_widget = None
    /\ result = None
    /\ previous = None
    /\ HostIdle

OptimizeLayoutChecked ==
    /\ op = "idle"
    /\ op' = "optimize_layout"
    /\ result' = Outcome(optimize_layout_overflows(js_widgets, js_config),
                         optimize_layout(js_widgets, js_config))
    /\ UNCHANGED <<js_widgets, js_config, dragged_widget_id, js_new_widget, previous>>
    /\ UNCHANGED host_vars

ResolveConflictsChecked ==
    /\ op = "idle"
    /\ \E id \in (1..Len(js_widgets)) \cup {MissingId} :
          /\ dragged_widget_id' = id
          /\ result' = Outcome(resolve_conflicts_overflows(js_widgets, js_config, id),
                               resolve_conflicts(js_widgets, js_config, id))
    /\ op' = "resolve_conflicts"
    /\ UNCHANGED <<js_widgets, js_config, js_new_widget, previous>>
    /\ UNCHANGED host_vars

FindBestPositionChecked ==
    /\ op = "idle"
    /\ \E nw \in NewWidgets :
          /\ js_new_widget' = nw
          /\ result' = Outcome(find_best_position_overflows(js_widgets, nw, js_config),
                               find_best_position(js_widgets, nw, js_config))
    /\ op' = "find_best_position"
    /\ UNCHANGED <<js_widgets, js_config, dragged_widget_id, previous>>
    /\ UNCHANGED host_vars

NextEdge ==
    \/ OptimizeLayoutChecked
    \/ ResolveConflictsChecked
    \/ FindBestPositionChecked

SpecEdge == InitEdge /\ [][NextEdge]_vars

\* ------------------------------------------------------------------------
\* The caller with arguments that may fail to deserialize
\* ------------------------------------------------------------------------
\* The fields of a widget on the wire, and the same with one field left out
WireFields(widget) ==
    [id |-> widget.id, position |-> widget.position, locked |-> widget.locked]

Without(fields, name) == [n \in (DOMAIN fields) \ {name} |-> fields[n]]

\* A widget as it arrives: well-formed, with a field missing, or no object
JsForms(widget) ==
    {JsObject(WireFields(widget)), JsNull}
    \cup {JsObject(Without(WireFields(widget), name)) : name \in {"id", "position", "locked"}}

WirePositions == {Position(0, y, 1, 1) : y \in 0..MaxY}

JsWidgetLists ==
    {JsNull}
    \cup {JsArray(<<>>)}
    \cup {JsArray(<<a>>) : a \in UNION {JsForms(JsWidget(1, p, FALSE)) : p \in WirePositions}}
    \cup {JsArray(<<a, b>>) :
            a \in JsForms(JsWidget(1, Position(0, 0, 1, 1), FALSE)),
            b \in UNION {JsForms(JsWidget(2, p, FALSE)) : p \in WirePositions}}

\* A configuration as it arrives: an object with some of its fields, or no
\* object
JsConfigs ==
    {JsNull}
    \cup {JsObject(Without(Without([columns |-> 1, float |-> float], drop[1]), drop[2])) :
            float \in BOOLEAN, drop \in {"columns", "float", "gap"} \X {"float", "gap"}}

JsNewWidgets == JsForms(JsWidget(MissingId, Position(0, 0, 1, 1), FALSE))

InitParse ==
    /\ js_widgets \in JsWidgetLists
    /\ js_config \in JsConfigs
    /\ op = "idle"
    /\ dragged_widget_id = MissingId
    /\ js_new_widget = None
    /\ result = None
    /\ previous = None
    /\ HostIdle

OptimizeLayoutCall ==
    /\ op = "idle"
    /\ op' = "optimize_layout"
    /\ result' = optimize_layout_result(js_widgets, js_config)
    /\ UNCHANGED <<js_widgets, js_config, dragged_widget_id, js_new_widget, previous>>
    /\ UNCHANGED host_vars

ResolveConflictsCall ==
    /\ op = "idle"
    /\ \E id \in {1, MissingId} :
          /\ dragged_widget_id' = id
          /\ result' = resolve_conflicts_result(js_widgets, js_config, id)
    /\ op' = "resolve_conflicts"
    /\ UNCHANGED <<js_widgets, js_config, js_new_widget, previous>>
    /\ UNCHANGED host_vars

FindBestPositionCall ==
    /\ op = "idle"
    /\ \E nw \in JsNewWidgets :
          /\ js_new_widget' = nw
          /\ result' = find_best_position_result(js_widgets, nw, js_config)
    /\ op' = "find_best_position"
    /\ UNCHANGED <<js_widgets, js_config, dragged_widget_id, previous>>
    /\ UNCHANGED host_vars

NextParse ==
    \/ OptimizeLayoutCall
    \/ ResolveConflictsCall
    \/ FindBestPositionCall

SpecParse == InitParse /\ [][NextParse]_vars

\* ------------------------------------------------------------------------
\* The two loops of OccupiedGrid, one iteration per step.  js_widgets are the
\* widgets registered in the grid, js_new_widget is the widget the method
\* is called with, result is the loop variable (pos, test_pos).
\* ------------------------------------------------------------------------
registered_grid ==
    register_all(OccupiedGrid_new(js_config.columns), parse_from_js(js_widgets), 1)

\* The end of the range of x: 0..(self.columns - pos.w + 1)
x_range_end == js_config.columns - js_new_widget.position.w + 1

\* Whether a registered widget is locked makes no difference to the grid
UnlockedListsOver(n, positions) ==
    {[i \in 1..n |-> JsWidget(i, f[i], FALSE)] : f \in [1..n -> positions]}

\* The grids of find_highest_position
PullLists == UNION {UnlockedListsOver(n, RowPositions) : n \in 0..2}

\* The grids of find_best_position
ScanLists ==
    UnlockedListsOver(0, RowPositions) \cup UnlockedListsOver(1, RowPositions)
    \cup UnlockedListsOver(1, TowerPositions)

LoopWidgets ==
    {JsWidget(MissingId, Position(x, y, w, h), FALSE) :
        x \in -1..MaxX, y \in -1..MaxY, w \in 1..MaxW, h \in 1..MaxH}

LoopConfigs == {GridConfig(columns, 0, FALSE, FALSE) : columns \in 1..MaxColumns}

InitLoop ==
    /\ js_config \in LoopConfigs
    /\ \/ /\ op = "find_highest_position"
          /\ js_widgets \in PullLists
          /\ js_new_widget \in LoopWidgets
          /\ result = js_new_widget.position
       \/ /\ op = "find_best_position"
          /\ js_widgets \in ScanLists
          /\ js_new_widget \in NewWidgets
          /\ result = [js_new_widget.position EXCEPT !.x = 0, !.y = 0]
    /\ dragged_widget_id = MissingId
    /\ previous = None
    /\ HostIdle

\* Mutant of PullUp: "pos.y -= 1" is left out.
PullUpInPlace ==
    /\ op = "find_highest_position"
    /\ result.y > 0
    /\ can_place_at(registered_grid, [result EXCEPT !.y = result.y - 1])
    /\ UNCHANGED vars

\* An iteration of "while pos.y > 0" that takes the test position
PullUp ==
    /\ op = "find_highest_position"
    /\ result.y > 0
    /\ can_place_at(registered_grid, [result EXCEPT !.y = result.y - 1])
    /\ result' = [result EXCEPT !.y = result.y - 1]
    /\ UNCHANGED <<js_widgets, js_config, op, dragged_widget_id, js_new_widget, previous>>
    /\ UNCHANGED host_vars

\* Mutant of PullReturn: "if" for "while", the method may return behind
\* the first iteration.
PullReturnBehindFirst ==
    /\ op = "find_highest_position"
    /\ \/ ~(result.y > 0 /\ can_place_at(registered_grid, [result EXCEPT !.y = result.y - 1]))
       \/ result.y < js_new_widget.position.y
    /\ op' = "find_highest_position returned"
    /\ UNCHANGED <<js_widgets, js_config, dragged_widget_id, js_new_widget, result, previous>>
    /\ UNCHANGED host_vars

\* The loop ends: pos.y <= 0, or the test position cannot be placed (break)
PullReturn ==
    /\ op = "find_highest_position"
    /\ ~(result.y > 0 /\ can_place_at(registered_grid, [result EXCEPT !.y = result.y - 1]))
    /\ op' = "find_highest_position returned"
    /\ UNCHANGED <<js_widgets, js_config, dragged_widget_id, js_new_widget, result, previous>>
    /\ UNCHANGED host_vars

\* The test of one candidate: it is returned, or the inner loop goes on
ScanTest ==
    /\ op = "find_best_position"
    /\ result.y < SearchRows /\ result.x < x_range_end
    /\ IF can_place_at(registered_grid, result)
       THEN op' = "find_best_position returned" /\ result' = result
       ELSE op' = op /\ result' = [result EXCEPT !.x = result.x + 1]
    /\ UNCHANGED <<js_widgets, js_config, dragged_widget_id, js_new_widget, previous>>
    /\ UNCHANGED host_vars

\* The inner loop is over (or has no iteration): the next row
ScanNextRow ==
    /\ op = "find_best_position"
    /\ result.y < SearchRows /\ result.x >= x_range_end
    /\ result' = [result EXCEPT !.x = 0, !.y = result.y + 1]
    /\ UNCHANGED <<js_widgets, js_config, op, dragged_widget_id, js_new_widget, previous>>
    /\ UNCHANGED host_vars

\* The outer loop is over: the fallback
ScanFallback ==
    /\ op = "find_best_position"
    /\ result.y >= SearchRows
    /\ result' = fallback_position(js_new_widget.position)
    /\ op' = "find_best_position returned"
    /\ UNCHANGED <<js_widgets, js_config, dragged_widget_id, js_new_widget, previous>>
    /\ UNCHANGED host_vars

NextLoop ==
    \/ PullUp
    \/ PullReturn
    \/ ScanTest
    \/ ScanNextRow
    \/ ScanFallback

\* A call that has started keeps running.
SpecLoop == InitLoop /\ [][NextLoop]_vars /\ WF_vars(NextLoop)

\* ------------------------------------------------------------------------
\* nodus-engine: the grid commands (commands_grid.rs) over the storage
\* manager (storage/storage_mod.rs).  The commands are async Tauri commands:
\* two dispatches interleave at the awaits of storage.get and storage.put.
\* ------------------------------------------------------------------------
MaxCalls == 2

DefaultColumns == 24

Some(value) == <<value>>

Containers == {"default", "g"}

\* GridBlock with the fields an add fills from the block data (id, type, x,
\* w); y, h, title, config, static_grid and entity_id are filled the same way.
GridBlock(id, block_type, x, w) == [id |-> id, block_type |-> block_type, x |-> x, w |-> w]

\* GridConfig of commands_grid.rs (the metadata, a time stamp, is left out)
commands_GridConfig(blocks, columns, config_id) ==
    [blocks |-> blocks, columns |-> columns, config_id |-> config_id]

create_default_config(config_id) ==
    commands_GridConfig(<<>>, Some(DefaultColumns), config_id)

\* serde_json::to_value on a GridConfig: an object with every field
to_value_grid_config(config) ==
    JsObject([blocks |-> config.blocks, columns |-> config.columns,
              config_id |-> config.config_id])

\* serde_json::from_value::<GridConfig>: blocks and config_id are required,
\* the Option columns is None when absent.
from_value_grid_config(data) ==
    IF data.kind # "object" THEN Err("invalid type, expected struct GridConfig")
    ELSE IF "blocks" \notin DOMAIN data.fields THEN Err("missing field blocks")
    ELSE IF "config_id" \notin DOMAIN data.fields THEN Err("missing field config_id")
    ELSE Ok(commands_GridConfig(data.fields.blocks,
                                IF "columns" \in DOMAIN data.fields
                                THEN data.fields.columns ELSE None,
                                data.fields.config_id))

\* StorageManager::get as the value it returns: a cached entity is returned
\* without asking the backend; otherwise the backend's answer, or its error.
StorageManager_get(store, key, backend_ok) ==
    IF key \in store.cache THEN Ok(store.entities[key])
    ELSE IF backend_ok THEN Ok(store.entities[key])
    ELSE Err("BackendError")

\* ... and the cache it leaves behind: an entity that was found is cached.
StorageManager_get_store(store, key, backend_ok) ==
    IF key \notin store.cache /\ backend_ok /\ store.entities[key] # None
    THEN [store EXCEPT !.cache = @ \cup {key}]
    ELSE store

\* StorageManager::put: the backend's put, then the cache
StorageManager_put(store, key, data) ==
    [store EXCEPT !.entities[key] = Some(data), !.cache = @ \cup {key}]

\* get_grid_config on the answer of storage.get, with an error of the storage
\* handed on to the caller
get_grid_config_or_error(got, config_id) ==
    IF ~got.ok THEN Err("Storage error")
    ELSE IF got.value = None THEN Ok(create_default_config(config_id))
    ELSE LET parsed == from_value_grid_config(got.value[1])
         IN  IF parsed.ok THEN parsed ELSE Ok(create_default_config(config_id))

\* get_grid_config on the answer of storage.get
get_grid_config(got, config_id) ==
    IF ~got.ok THEN Ok(create_default_config(config_id))
    ELSE IF got.value = None THEN Ok(create_default_config(config_id))
    ELSE LET parsed == from_value_grid_config(got.value[1])
         IN  IF parsed.ok THEN Ok(parsed.value)
             ELSE Ok(create_default_config(config_id))

\* payload.get(name) of a JSON object, as an Option
get(object, name) == IF name \in DOMAIN object THEN Some(object[name]) ELSE None

unwrap_or(option, default) == IF option = None THEN default ELSE option[1]

\* The block of an "add" update, every field with its default
added_block(block_id, block_data) ==
    GridBlock(block_id,
              unwrap_or(get(block_data, "type"), "html"),
              unwrap_or(get(block_data, "x"), 0),
              unwrap_or(get(block_data, "w"), 1))

\* The payloads of grid.block.add: blockConfig and containerId may be absent
NoFields == [name \in {} |-> 0]

BlockConfigs == {NoFields, [type |-> "chart", x |-> 1, w |-> 2]}

Payloads ==
    {NoFields}
    \cup {[blockConfig |-> b] : b \in BlockConfigs}
    \cup {[blockConfig |-> b, containerId |-> c] : b \in BlockConfigs, c \in Containers}

\* What the storage may hold for a container when the program starts:
\* nothing, a value that is no GridConfig, or a saved configuration
StoredBlock == GridBlock(0, "html", 0, 1)

StartEntities(config_id) ==
    {None, Some(JsNull), Some(JsObject([config_id |-> config_id]))}
    \cup {Some(to_value_grid_config(commands_GridConfig(blocks, Some(DefaultColumns), config_id))) :
            blocks \in {<<>>, <<StoredBlock>>}}

NotDispatched == [pc |-> "idle"]

InitCommands ==
    /\ EngineIdle
    /\ \E entities \in [Containers -> UNION {StartEntities(c) : c \in Containers}] :
          /\ \A c \in Containers : entities[c] \in StartEntities(c)
          /\ storage = [entities |-> entities, cache |-> {}]
    /\ calls = [i \in 1..MaxCalls |-> NotDispatched]
    /\ loaded = [pc |-> "idle"]
    /\ action_handlers = None /\ middleware_stack = None /\ dispatched = None
    /\ OrchestratorIdle

\* dispatch_action("grid.block.add", payload) up to the first await: the
\* payload is read, the block id is drawn (a fresh uuid: the call's number).
DispatchAdd(i) ==
    /\ calls[i].pc = "idle"
    /\ \E payload \in Payloads :
          IF get(payload, "blockConfig") = None
          THEN calls' = [calls EXCEPT ![i] =
                            [pc |-> "returned", payload |-> payload,
                             returned |-> Err("Missing blockConfig")]]
          ELSE calls' = [calls EXCEPT ![i] =
                            [pc |-> "get_grid_config", payload |-> payload,
                             config_id |-> unwrap_or(get(payload, "containerId"), "default"),
                             block_id |-> i]]
    /\ UNCHANGED <<storage, loaded, action_handlers, middleware_stack, dispatched>>
    /\ UNCHANGED engine_vars
    /\ UNCHANGED orchestrator_vars

\* update_grid_state from the answer of storage.get to the await of
\* storage.put: the current configuration is read and the block is pushed.
AddGet(i) ==
    /\ calls[i].pc = "get_grid_config"
    /\ \E backend_ok \in BOOLEAN :
          LET call == calls[i]
              config == get_grid_config(StorageManager_get(storage, call.config_id, backend_ok),
                                        call.config_id)
          IN  /\ storage' = StorageManager_get_store(storage, call.config_id, backend_ok)
              /\ IF config.ok
                 THEN calls' = [calls EXCEPT ![i] =
                        [pc |-> "save_grid_config", payload |-> call.payload,
                         config_id |-> call.config_id, block_id |-> call.block_id,
                         config |-> [config.value EXCEPT !.blocks =
                                        Append(@, added_block(call.block_id,
                                                              call.payload.blockConfig))]]]
                 ELSE calls' = [calls EXCEPT ![i] =
                        [pc |-> "returned", payload |-> call.payload,
                         returned |-> config]]
    /\ UNCHANGED <<loaded, action_handlers, middleware_stack, dispatched>>
    /\ UNCHANGED engine_vars
    /\ UNCHANGED orchestrator_vars

\* save_grid_config from the answer of storage.put to the return of
\* dispatch_action: the block id on success, the error of the put otherwise.
AddSave(i) ==
    /\ calls[i].pc = "save_grid_config"
    /\ \E backend_ok \in BOOLEAN :
          LET call == calls[i]
          IN  IF backend_ok
              THEN /\ storage' = StorageManager_put(storage, call.config_id,
                                                    to_value_grid_config(call.config))
                   /\ calls' = [calls EXCEPT ![i] =
                        [pc |-> "returned", payload |-> call.payload,
                         config_id |-> call.config_id, block_id |-> call.block_id,
                         returned |-> Ok([blockId |-> call.block_id, success |-> TRUE])]]
              ELSE /\ storage' = storage
                   /\ calls' = [calls EXCEPT ![i] =
                        [pc |-> "returned", payload |-> call.payload,
                         returned |-> Err("Failed to save grid config")]]
    /\ UNCHANGED <<loaded, action_handlers, middleware_stack, dispatched>>
    /\ UNCHANGED engine_vars
    /\ UNCHANGED orchestrator_vars

\* get_grid_config(config_id) called on its own (grid.config.load): the
\* answer of storage.get and what the command returns for it
LoadConfig ==
    /\ \E config_id \in Containers, backend_ok \in BOOLEAN :
          LET got == StorageManager_get(storage, config_id, backend_ok)
          IN  /\ loaded' = [pc |-> "returned", config_id |-> config_id, got |-> got,
                            returned |-> get_grid_config(got, config_id)]
              /\ storage' = StorageManager_get_store(storage, config_id, backend_ok)
    /\ UNCHANGED <<calls, action_handlers, middleware_stack, dispatched>>
    /\ UNCHANGED engine_vars
    /\ UNCHANGED orchestrator_vars

NextCommands ==
    \/ \E i \in 1..MaxCalls : DispatchAdd(i)
    \/ \E i \in 1..MaxCalls : AddGet(i)
    \/ \E i \in 1..MaxCalls : AddSave(i)
    \/ LoadConfig

SpecCommands == InitCommands /\ [][NextCommands]_vars

\* ------------------------------------------------------------------------
\* nodus-engine: the action dispatcher (action_dispatcher.rs).  Action
\* types are sequences of characters, so that the wildcard match works on
\* the text as the code does.
\* ------------------------------------------------------------------------
MaxMiddleware == 2

max_payload_size == 1048576

ends_with(text, suffix) ==
    /\ Len(suffix) <= Len(text)
    /\ SubSeq(text, Len(text) - Len(suffix) + 1, Len(text)) = suffix

starts_with(text, prefix) ==
    /\ Len(prefix) <= Len(text)
    /\ SubSeq(text, 1, Len(prefix)) = prefix

\* The closure of handlers.values().find: a handler registered as `prefix.*`
\* takes every action type that starts with the prefix (the dot is cut off
\* with the star).
wildcard_matches(pattern, action_type) ==
    /\ ends_with(pattern, <<".", "*">>)
    /\ starts_with(action_type, SubSeq(pattern, 1, Len(pattern) - 2))

\* The handlers execute_action may run for an action type: the exact one,
\* else any wildcard handler that matches (find takes the first in the hash
\* map's order, which is not fixed).
matching_handlers(handlers, action_type) ==
    IF action_type \in DOMAIN handlers THEN {action_type}
    ELSE {pattern \in DOMAIN handlers : wildcard_matches(pattern, action_type)}

ValidationError(field) == [kind |-> "ValidationError", field |-> field]

HandlerNotFound(action_type) == [kind |-> "HandlerNotFound", action_type |-> action_type]

MiddlewareError(middleware) == [kind |-> "MiddlewareError", middleware |-> middleware]

\* ActionValidator::validate_action (allowed_action_types is None)
validate_action(action) ==
    IF action.action_type = <<>> THEN Err(ValidationError("action_type"))
    ELSE IF action.payload_len > max_payload_size THEN Err(ValidationError("payload"))
    ELSE Ok(TRUE)

\* The middleware of the stack, in order, whose before_execute / after_execute
\* returns an error
failing_before(stack) == {k \in 1..Len(stack) : ~stack[k].before_ok}

failing_after(stack) == {k \in 1..Len(stack) : ~stack[k].after_ok}

\* An ActionResult whatever the handler returned
ActionResult_always_success(returns) ==
    [success |-> TRUE, error |-> None]

\* The ActionResult built from what the handler returned
ActionResult(returns) ==
    IF returns = "Ok" THEN [success |-> TRUE, error |-> None]
    ELSE [success |-> FALSE, error |-> Some("ExecutionError")]

\* execute_action, given the handler find picked: what ran and what the call
\* returned
execute_action(action, handlers, stack, picked) ==
    IF ~validate_action(action).ok
    THEN [invoked |-> None, returned |-> Err(validate_action(action).error)]
    ELSE IF failing_before(stack) # {}
    THEN [invoked |-> None,
          returned |-> Err(MiddlewareError(stack[Minimum(failing_before(stack))].name))]
    ELSE IF picked = None
    THEN [invoked |-> None, returned |-> Err(HandlerNotFound(action.action_type))]
    ELSE IF failing_after(stack) # {}
    THEN [invoked |-> picked,
          returned |-> Err(MiddlewareError(stack[Minimum(failing_after(stack))].name))]
    ELSE [invoked |-> picked, returned |-> Ok(ActionResult(handlers[picked[1]]))]

\* add_middleware: push, then the stable sort by priority of a sorted stack
add_middleware(stack, middleware) ==
    LET before == {k \in 1..Len(stack) : stack[k].priority <= middleware.priority}
    IN  SubSeq(stack, 1, Cardinality(before)) \o <<middleware>>
        \o SubSeq(stack, Cardinality(before) + 1, Len(stack))

\* register_handler: HashMap::insert under the handler's action type
register_handler(handlers, action_type, returns) ==
    [t \in (DOMAIN handlers) \cup {action_type} |->
        IF t = action_type THEN returns ELSE handlers[t]]

\* Handler and action types: an exact type, two wildcard patterns, types
\* only a wildcard takes, and types nothing takes
HandlerTypes == {<<"g", ".", "s">>, <<"g", ".", "*">>, <<"u", ".", "*">>}

ActionTypes ==
    HandlerTypes \cup {<<>>, <<"g", ".", "t">>, <<"g", "x">>, <<"u">>, <<"v", ".", "s">>}

Actions ==
    {[action_type |-> t, payload_len |-> n] :
        t \in ActionTypes, n \in {2, max_payload_size, max_payload_size + 1}}

\* LoggingMiddleware, and middleware that refuses an action or a result
Middlewares ==
    {[name |-> "LoggingMiddleware", priority |-> 10, before_ok |-> TRUE, after_ok |-> TRUE],
     [name |-> "Gate", priority |-> 5, before_ok |-> FALSE, after_ok |-> TRUE],
     [name |-> "Audit", priority |-> 10, before_ok |-> TRUE, after_ok |-> FALSE]}

InitDispatch ==
    /\ EngineIdle
    /\ storage = None /\ calls = None /\ loaded = None
    /\ action_handlers = NoFields
    /\ middleware_stack = <<>>
    /\ dispatched = [pc |-> "idle"]
    /\ OrchestratorIdle

RegisterHandler ==
    /\ \E action_type \in HandlerTypes, returns \in {"Ok", "Err"} :
          action_handlers' = register_handler(action_handlers, action_type, returns)
    /\ UNCHANGED <<storage, calls, loaded, middleware_stack, dispatched>>
    /\ UNCHANGED engine_vars
    /\ UNCHANGED orchestrator_vars

AddMiddleware ==
    /\ Len(middleware_stack) < MaxMiddleware
    /\ \E middleware \in Middlewares :
          middleware_stack' = add_middleware(middleware_stack, middleware)
    /\ UNCHANGED <<storage, calls, loaded, action_handlers, dispatched>>
    /\ UNCHANGED engine_vars
    /\ UNCHANGED orchestrator_vars

\* execute_action holds the read locks of the stack and of the registry
\* while it runs.
ExecuteAction ==
    /\ \E action \in Actions :
          LET found == matching_handlers(action_handlers, action.action_type)
          IN  \E picked \in (IF found = {} THEN {None} ELSE {Some(h) : h \in found}) :
                 dispatched' = [pc |-> "returned", action |-> action] @@
                               execute_action(action, action_handlers, middleware_stack, picked)
    /\ UNCHANGED <<storage, calls, loaded, action_handlers, middleware_stack>>
    /\ UNCHANGED engine_vars
    /\ UNCHANGED orchestrator_vars

NextDispatch ==
    \/ RegisterHandler
    \/ AddMiddleware
    \/ ExecuteAction

SpecDispatch == InitDispatch /\ [][NextDispatch]_vars

\* ------------------------------------------------------------------------
\* nodus-engine: the async orchestrator (async_orchestrator.rs).  Several
\* calls of OperationRunner::run are in progress at once and interleave at
\* their awaits; a runner keeps the operation id it was created with, and
\* run takes &self, so two calls may belong to one runner.
\* ------------------------------------------------------------------------
MaxRuns == 2

MaxNow == 45

MaxFailures == 6

failure_threshold == 5

recovery_timeout == 30

\* The runners create_runner has handed out: two for one operation name,
\* one for another
Runners ==
    {[operation_id |-> 1, operation_name |-> "sync"],
     [operation_id |-> 2, operation_name |-> "sync"],
     [operation_id |-> 3, operation_name |-> "load"]}

CircuitBreaker(failure_count, last_failure, state) ==
    [failure_count |-> failure_count, last_failure |-> last_failure, state |-> state]

CircuitBreakerOpen(operation) == [kind |-> "CircuitBreakerOpen", operation |-> operation]

OperationFailed == [kind |-> "OperationFailed"]

\* is_circuit_breaker_open at the time given: an open breaker rejects until
\* more than recovery_timeout has passed since the last failure (the state
\* itself stays Open).
is_circuit_breaker_open(breakers, operation_name, time) ==
    IF operation_name \notin DOMAIN breakers THEN FALSE
    ELSE LET breaker == breakers[operation_name]
         IN  IF breaker.state = "Open"
             THEN IF breaker.last_failure # None
                  THEN ~(time - breaker.last_failure[1] > recovery_timeout)
                  ELSE TRUE
             ELSE FALSE

\* Mutant of record_success: the count is reset, the state is left as it is.
record_success_count_only(breakers, operation_name) ==
    IF operation_name \in DOMAIN breakers
    THEN [breakers EXCEPT ![operation_name].failure_count = 0]
    ELSE breakers

\* record_success on the circuit breakers: an existing breaker is reset.
record_success(breakers, operation_name) ==
    IF operation_name \in DOMAIN breakers
    THEN [breakers EXCEPT ![operation_name].failure_count = 0,
                          ![operation_name].state = "Closed"]
    ELSE breakers

\* record_failure on the circuit breakers: the breaker is created when
\* missing, counts the failure and opens at the threshold.
record_failure(breakers, operation_name, time) ==
    LET breaker == IF operation_name \in DOMAIN breakers THEN breakers[operation_name]
                   ELSE CircuitBreaker(0, None, "Closed")
        counted == CircuitBreaker(breaker.failure_count + 1, Some(time),
                                  IF breaker.failure_count + 1 >= failure_threshold
                                  THEN "Open" ELSE breaker.state)
    IN  [n \in (DOMAIN breakers) \cup {operation_name} |->
            IF n = operation_name THEN counted ELSE breakers[n]]

NotRunning == [pc |-> "idle"]

InitOrchestrator ==
    /\ EngineIdle
    /\ storage = None /\ calls = None /\ loaded = None
    /\ action_handlers = None /\ middleware_stack = None /\ dispatched = None
    /\ circuit_breakers = NoFields
    /\ active_operations = {}
    /\ runs = [r \in 1..MaxRuns |-> NotRunning]
    /\ now = 0

\* run is called on a runner: the circuit breaker is checked and the call
\* returns CircuitBreakerOpen, or goes on to acquire its permit.
RunCheck(r) ==
    /\ runs[r].pc \in {"idle", "returned"}
    /\ \E runner \in Runners :
          IF is_circuit_breaker_open(circuit_breakers, runner.operation_name, now)
          THEN runs' = [runs EXCEPT ![r] =
                          [pc |-> "returned", runner |-> runner, start_time |-> now,
                           executed |-> FALSE,
                           result |-> Err(CircuitBreakerOpen(runner.operation_name))]]
          ELSE runs' = [runs EXCEPT ![r] =
                          [pc |-> "acquire", runner |-> runner]]
    /\ UNCHANGED <<circuit_breakers, active_operations, now>>
    /\ UNCHANGED <<engine_vars, command_vars>>

\* The permit is acquired (the semaphore has 100) and the operation is
\* registered as active under the runner's operation id.
RunRegister(r) ==
    /\ runs[r].pc = "acquire"
    /\ active_operations' = active_operations \cup {runs[r].runner.operation_id}
    /\ runs' = [runs EXCEPT ![r].pc = "spawn_blocking"]
    /\ UNCHANGED <<circuit_breakers, now>>
    /\ UNCHANGED <<engine_vars, command_vars>>

\* spawn_blocking(operation) has finished: the closure returned, or it
\* panicked and the join error becomes OperationFailed.
RunExecute(r) ==
    /\ runs[r].pc = "spawn_blocking"
    /\ \E panicked \in BOOLEAN :
          /\ panicked =>
                IF runs[r].runner.operation_name \in DOMAIN circuit_breakers
                THEN circuit_breakers[runs[r].runner.operation_name].failure_count < MaxFailures
                ELSE TRUE
          /\ runs' = [runs EXCEPT ![r] =
                        [pc |-> "remove", runner |-> runs[r].runner, executed |-> TRUE,
                         result |-> IF panicked THEN Err(OperationFailed) ELSE Ok("T")]]
    /\ UNCHANGED <<circuit_breakers, active_operations, now>>
    /\ UNCHANGED <<engine_vars, command_vars>>

\* The operation id is removed from the active operations.
RunRemove(r) ==
    /\ runs[r].pc = "remove"
    /\ active_operations' = active_operations \ {runs[r].runner.operation_id}
    /\ runs' = [runs EXCEPT ![r].pc = "record"]
    /\ UNCHANGED <<circuit_breakers, now>>
    /\ UNCHANGED <<engine_vars, command_vars>>

\* record_success or record_failure, and run returns the result.
RunRecord(r) ==
    /\ runs[r].pc = "record"
    /\ circuit_breakers' =
          IF runs[r].result.ok
          THEN record_success(circuit_breakers, runs[r].runner.operation_name)
          ELSE record_failure(circuit_breakers, runs[r].runner.operation_name, now)
    /\ runs' = [runs EXCEPT ![r].pc = "returned"]
    /\ UNCHANGED <<active_operations, now>>
    /\ UNCHANGED <<engine_vars, command_vars>>

\* Time passes, a quarter of a minute at a time.
Tick ==
    /\ now + 15 <= MaxNow
    /\ now' = now + 15
    /\ UNCHANGED <<circuit_breakers, active_operations, runs>>
    /\ UNCHANGED <<engine_vars, command_vars>>

NextOrchestrator ==
    \/ \E r \in 1..MaxRuns : RunCheck(r)
    \/ \E r \in 1..MaxRuns : RunRegister(r)
    \/ \E r \in 1..MaxRuns : RunExecute(r)
    \/ \E r \in 1..MaxRuns : RunRemove(r)
    \/ \E r \in 1..MaxRuns : RunRecord(r)
    \/ Tick

SpecOrchestrator == InitOrchestrator /\ [][NextOrchestrator]_vars





\* ------------------------------------------------------------------------
\* Vocabulary of the properties
\* ------------------------------------------------------------------------
\* Two rectangles share a grid cell.
Overlap(a, b) == cells(a) \cap cells(b) # {}

\* The list the last call of optimize_layout / resolve_conflicts was given.
call_widgets == IF previous # None THEN previous ELSE js_widgets

Ids(list) == {list[i].id : i \in 1..Len(list)}

\* The widget with the given id (ids are unique)
ById(list, id) == list[CHOOSE i \in 1..Len(list) : list[i].id = id]

PositionKept(id) ==
    /\ id \in Ids(result)
    /\ ById(result, id).position = ById(call_widgets, id).position

InGrid(pos, columns) == pos.x >= 0 /\ pos.y >= 0 /\ pos.x + pos.w <= columns

PairwiseDisjoint(list) ==
    \A i, j \in 1..Len(list) :
        i # j => ~Overlap(list[i].position, list[j].position)

Compacted  == op = "optimize_layout" /\ ~js_config.float
Floated    == op = "optimize_layout" /\ js_config.float
Dragged    == op = "resolve_conflicts" /\ dragged_widget_id \in Ids(js_widgets)
NotDragged == op = "resolve_conflicts" /\ dragged_widget_id \notin Ids(js_widgets)

Moved(id) == ById(result, id).position # ById(call_widgets, id).position

\* ------------------------------------------------------------------------
\* C1  No-overlap invariant of optimize_layout (non-float): when no two
\* locked widgets of the input overlap, no two widgets of the output overlap.
\* Stated here for inputs that lie inside the grid (x >= 0, y >= 0,
\* x + w <= columns), where the code already breaks it: a widget is never
\* tested at the position it starts from, so two unlocked widgets that share
\* a cell in row 0 both stay.
\* ------------------------------------------------------------------------
C1_NoOverlapAfterOptimize ==
    (/\ Compacted
     /\ \A i \in 1..Len(call_widgets) : InGrid(call_widgets[i].position, js_config.columns)
     /\ \A i, j \in 1..Len(call_widgets) :
           (i # j /\ call_widgets[i].locked /\ call_widgets[j].locked)
               => ~Overlap(call_widgets[i].position, call_widgets[j].position))
    => PairwiseDisjoint(result)

\* ------------------------------------------------------------------------
\* C2  Locked invariant: a locked widget has in the output of optimize_layout
\* (float and non-float) and of resolve_conflicts the position of the input.
\* ------------------------------------------------------------------------
C2_LockedKeepPosition ==
    op \in {"optimize_layout", "resolve_conflicts"} =>
        \A i \in 1..Len(call_widgets) :
            call_widgets[i].locked => PositionKept(call_widgets[i].id)

\* A drag that moved an unlocked widget while a locked widget with free
\* cells above it stayed.
C2_Witness ==
    /\ Dragged
    /\ \E i, j \in 1..Len(js_widgets) :
          /\ js_widgets[i].locked /\ js_widgets[i].position.y > 0
          /\ js_widgets[i].id # dragged_widget_id
          /\ can_place_at(OccupiedGrid_new(js_config.columns),
                          [js_widgets[i].position EXCEPT !.y = @ - 1])
          /\ ~js_widgets[j].locked /\ Moved(js_widgets[j].id)

\* ------------------------------------------------------------------------
\* C3  Dragged-widget invariant: the widget resolve_conflicts is told is
\* dragged has in the output the position of the input, locked or not.
\* ------------------------------------------------------------------------
C3_DraggedKeepsPosition ==
    Dragged => PositionKept(dragged_widget_id)

\* An unlocked dragged widget below free cells, over a widget it pushes down.
C3_Witness ==
    /\ Dragged
    /\ ~ById(js_widgets, dragged_widget_id).locked
    /\ ById(js_widgets, dragged_widget_id).position.y > 0
    /\ InGrid(ById(js_widgets, dragged_widget_id).position, js_config.columns)
    /\ \E i \in 1..Len(js_widgets) :
          /\ js_widgets[i].id # dragged_widget_id
          /\ Overlap(js_widgets[i].position, ById(js_widgets, dragged_widget_id).position)
          /\ Moved(js_widgets[i].id)


\* ------------------------------------------------------------------------
\* C4  Idempotence of optimize_layout (non-float): a second pass over the
\* output of the first leaves every widget at the position the first pass
\* gave it.
\* ------------------------------------------------------------------------
C4_SecondPassChangesNothing ==
    (Compacted /\ previous # None) =>
        /\ Ids(result) = Ids(previous)
        /\ \A id \in Ids(previous) : ById(result, id).position = ById(previous, id).position

\* A second pass behind a first pass that pulled an unlocked widget up by
\* more than one row, past the row of another widget.
C4_Witness ==
    /\ Compacted /\ previous # None
    /\ \E i, j \in 1..Len(js_widgets) :
          /\ i # j
          /\ ById(previous, js_widgets[i].id).position.y < js_widgets[i].position.y - 1
          /\ ById(previous, js_widgets[i].id).position.y < ById(previous, js_widgets[j].id).position.y
          /\ js_widgets[i].position.y > js_widgets[j].position.y

\* ------------------------------------------------------------------------
\* C5  resolve_conflicts keeps the layout free of overlaps: when the only
\* overlaps of the input are overlaps with the dragged widget, no two
\* widgets of the output overlap.  Stated here for inputs inside the grid
\* in which the dragged widget overlaps unlocked widgets only, where the code
\* already breaks it: the push sets y to dragged.y + dragged.h without a test
\* of the cells there, and the compact phase never tests a widget at the
\* position it starts from.
\* ------------------------------------------------------------------------
C5_NoOverlapAfterResolve ==
    (/\ Dragged
     /\ \A i \in 1..Len(js_widgets) : InGrid(js_widgets[i].position, js_config.columns)
     /\ \A i, j \in 1..Len(js_widgets) :
           (i # j /\ Overlap(js_widgets[i].position, js_widgets[j].position))
               => \/ (js_widgets[i].id = dragged_widget_id /\ ~js_widgets[j].locked)
                  \/ (js_widgets[j].id = dragged_widget_id /\ ~js_widgets[i].locked))
    => PairwiseDisjoint(result)

\* ------------------------------------------------------------------------
\* C6  Best-position validity.
\* ------------------------------------------------------------------------
ValidBestPosition ==
    /\ \A i \in 1..Len(js_widgets) : ~Overlap(result, js_widgets[i].position)
    /\ result.x >= 0
    /\ result.x + result.w <= js_config.columns

\* C6 as claimed: the position find_best_position returns shares no cell
\* with an existing widget and has x >= 0 and x + w <= columns, the row-1000
\* fallback included.
C6_BestPositionAlwaysValid ==
    op = "find_best_position" => ValidBestPosition

\* C6 as amended: the position find_best_position returns, when it is not the
\* row-1000 fallback, shares no cell with an existing widget and has x >= 0
\* and x + w <= columns; the fallback has x = 0 and the size of the new
\* widget, whatever the columns.
C6_BestPositionValidUnlessFallback ==
    op = "find_best_position" =>
        /\ result.w = js_new_widget.position.w
        /\ result.h = js_new_widget.position.h
        /\ result.y # SearchRows => ValidBestPosition
        /\ result.y = SearchRows => result.x = 0

\* A position found behind occupied cells: not in row 0, and row 0 has free
\* cells that the new widget does not fit into.
C6_Witness ==
    /\ op = "find_best_position"
    /\ result.y # SearchRows
    /\ result.y > 0
    /\ result.w > 1
    /\ \E i \in 1..Len(js_widgets) : ~js_widgets[i].locked /\ js_widgets[i].position.y = 0
    /\ \E c \in 0..(js_config.columns - 1) :
          \A i \in 1..Len(js_widgets) : <<c, 0>> \notin cells(js_widgets[i].position)

\* ------------------------------------------------------------------------
\* C7  Float mode clamps x.
\* ------------------------------------------------------------------------
\* C7 as claimed: after optimize_layout in float mode the x of every unlocked
\* widget lies in [0, columns - w].
C7_FloatXInRange ==
    Floated =>
        \A i \in 1..Len(result) :
            ~result[i].locked =>
                /\ 0 <= result[i].position.x
                /\ result[i].position.x <= js_config.columns - result[i].position.w

\* C7 as amended: after optimize_layout in float mode the x of every unlocked
\* widget is min(max(x, 0), columns - w): in [0, columns - w] when
\* w <= columns, and columns - w (negative) when w > columns.
C7_FloatXClamped ==
    Floated =>
        \A i \in 1..Len(result) :
            ~result[i].locked =>
                LET x  == call_widgets[i].position.x
                    w  == call_widgets[i].position.w
                    x2 == result[i].position.x
                IN  /\ w <= js_config.columns =>
                        /\ 0 <= x2 /\ x2 <= js_config.columns - w
                        /\ (0 <= x /\ x <= js_config.columns - w) => x2 = x
                        /\ x < 0 => x2 = 0
                        /\ x > js_config.columns - w => x2 = js_config.columns - w
                    /\ w > js_config.columns => x2 = js_config.columns - w

\* Float mode with a widget left of the grid and a widget that hangs over
\* the right edge, both unlocked and no wider than the grid.
C7_Witness ==
    /\ Floated /\ previous = None
    /\ \E i, j \in 1..Len(js_widgets) :
          /\ ~js_widgets[i].locked /\ js_widgets[i].position.x < 0
          /\ js_widgets[i].position.w <= js_config.columns
          /\ result[i].position.x = 0
          /\ ~js_widgets[j].locked /\ js_widgets[j].position.w <= js_config.columns
          /\ js_widgets[j].position.x + js_widgets[j].position.w > js_config.columns
          /\ result[j].position.x = js_config.columns - js_widgets[j].position.w

\* ------------------------------------------------------------------------
\* C8  Float mode and y: optimize_layout sets the y of every unlocked widget
\* to max(y, 0) and changes y in no other way; no widget moves up into free
\* cells, overlapping widgets stay overlapping, w and h stay.
\* ------------------------------------------------------------------------
C8_FloatYOnlyRaisedToZero ==
    Floated =>
        /\ Len(result) = Len(call_widgets)
        /\ \A i \in 1..Len(result) :
              /\ result[i].id = call_widgets[i].id
              /\ result[i].position.w = call_widgets[i].position.w
              /\ result[i].position.h = call_widgets[i].position.h
              /\ ~result[i].locked =>
                    result[i].position.y = IF call_widgets[i].position.y >= 0
                                           THEN call_widgets[i].position.y ELSE 0
              /\ result[i].locked => result[i].position.y = call_widgets[i].position.y
              \* a widget that needs no repair keeps its position, overlapping or not
              /\ (/\ call_widgets[i].position.y >= 0
                  /\ call_widgets[i].position.x >= 0
                  /\ call_widgets[i].position.x
                        <= js_config.columns - call_widgets[i].position.w)
                    => result[i].position = call_widgets[i].position

\* Float mode with an unlocked widget above the grid, which is moved to row
\* 0, and an unlocked widget inside the grid that has free cells in every
\* row above it and stays where it is.
C8_Witness ==
    /\ Floated /\ previous = None
    /\ \E i, j \in 1..Len(js_widgets) :
          /\ ~js_widgets[i].locked /\ js_widgets[i].position.y < 0
          /\ result[i].position.y = 0
          /\ ~js_widgets[j].locked /\ js_widgets[j].position.y > 1
          /\ InGrid(js_widgets[j].position, js_config.columns)
          /\ ~Overlap([js_widgets[j].position EXCEPT !.y = 0, !.h = js_widgets[j].position.y],
                      js_widgets[i].position)
          /\ ~Overlap([js_widgets[j].position EXCEPT !.y = 0, !.h = js_widgets[j].position.y],
                      result[i].position)
          /\ result[j].position = js_widgets[j].position

\* ------------------------------------------------------------------------
\* C9  Missing-drag-id fallback: with an id that no widget of the list has,
\* resolve_conflicts returns the widget list optimize_layout returns for the
\* same list and config, in float and in non-float mode.
\* ------------------------------------------------------------------------
C9_MissingIdIsOptimize ==
    NotDragged => result = optimize_layout(js_widgets, js_config)

\* A call with a missing id that reordered the list and pulled a widget up.
C9_Witness ==
    /\ NotDragged
    /\ Len(js_widgets) > 1
    /\ result[1].id # js_widgets[1].id
    /\ \E id \in Ids(js_widgets) : ById(result, id).position.y < ById(js_widgets, id).position.y

\* ------------------------------------------------------------------------
\* C10  The dragged footprint is reserved: after resolve_conflicts with a
\* dragged id of the list, no unlocked widget other than the dragged one
\* overlaps the rectangle of the dragged widget.
\* ------------------------------------------------------------------------
C10_DraggedFootprintFree ==
    Dragged =>
        \A i \in 1..Len(result) :
            (~result[i].locked /\ result[i].id # dragged_widget_id)
                => ~Overlap(result[i].position, ById(result, dragged_widget_id).position)

\* A drag over an unlocked widget, which is pushed below the dragged widget
\* and would fit one row higher but for the dragged widget.
C10_Witness ==
    /\ Dragged
    /\ \E i \in 1..Len(js_widgets) :
          /\ ~js_widgets[i].locked /\ js_widgets[i].id # dragged_widget_id
          /\ Overlap(js_widgets[i].position, ById(js_widgets, dragged_widget_id).position)
          /\ InGrid(result[i].position, js_config.columns)
          /\ result[i].position.y
                = ById(js_widgets, dragged_widget_id).position.y
                  + ById(js_widgets, dragged_widget_id).position.h
          /\ \A j \in 1..Len(result) :
                (j # i /\ result[j].id # dragged_widget_id)
                    => ~Overlap([result[i].position EXCEPT !.y = @ - 1], result[j].position)


\* ------------------------------------------------------------------------
\* Vocabulary of the drag properties
\* ------------------------------------------------------------------------
\* The dragged widget of the input, and the list as the push phase leaves it
dragged_input == ById(js_widgets, dragged_widget_id)

after_push ==
    serialize_to_js(push_phase(parse_from_js(js_widgets),
                               dragged_position(parse_from_js(js_widgets),
                                                dragged_widget_id)))

\* An unlocked widget of the input other than the dragged one
Pushable(i) == ~js_widgets[i].locked /\ js_widgets[i].id # dragged_widget_id

\* ------------------------------------------------------------------------
\* C11  In resolve_conflicts every unlocked widget other than the dragged
\* one whose input rectangle overlaps the dragged rectangle has
\* y = dragged.y + dragged.h in the output: it is pushed below the dragged
\* widget and the compact phase does not pull it up again.
\* ------------------------------------------------------------------------
C11_OverlappingEndBelowDragged ==
    Dragged =>
        \A i \in 1..Len(js_widgets) :
            (Pushable(i) /\ Overlap(js_widgets[i].position, dragged_input.position))
                => /\ result[i].id = js_widgets[i].id
                   /\ result[i].position.y
                         = dragged_input.position.y + dragged_input.position.h

\* A widget inside the grid pushed down by two rows, below a dragged widget
\* that does not cover every column of it.
C11_Witness ==
    /\ Dragged
    /\ \E i \in 1..Len(js_widgets) :
          /\ Pushable(i)
          /\ Overlap(js_widgets[i].position, dragged_input.position)
          /\ InGrid(js_widgets[i].position, js_config.columns)
          /\ js_widgets[i].position.w > dragged_input.position.w
          /\ result[i].position.y = js_widgets[i].position.y + 2

\* ------------------------------------------------------------------------
\* C12  Push monotonicity: the push phase of resolve_conflicts lowers the y
\* of no unlocked widget other than the dragged one, and it changes no
\* widget that does not overlap the dragged rectangle.
\* ------------------------------------------------------------------------
C12_PushOnlyDownward ==
    Dragged =>
        /\ Len(after_push) = Len(js_widgets)
        /\ \A i \in 1..Len(js_widgets) :
              /\ Pushable(i) => after_push[i].position.y >= js_widgets[i].position.y
              /\ ~Overlap(js_widgets[i].position, dragged_input.position)
                    => after_push[i] = js_widgets[i]

\* A push that lowered one widget and left alone a widget above the dragged
\* one, in a column of the dragged widget, and a widget below it.
C12_Witness ==
    /\ Dragged
    /\ \E i, j \in 1..Len(js_widgets) :
          /\ Pushable(i) /\ Pushable(j)
          /\ after_push[i].position.y > js_widgets[i].position.y
          /\ ~Overlap(js_widgets[j].position, dragged_input.position)
          /\ js_widgets[j].position.x = dragged_input.position.x
          /\ js_widgets[j].position.y # dragged_input.position.y
          /\ after_push[j] = js_widgets[j]

\* ------------------------------------------------------------------------
\* C13  After optimize_layout in non-float mode every unlocked widget is as
\* high as it can go: it has y <= 0, or one row higher it would overlap the
\* output rectangle of another widget or leave the columns of the grid.
\* ------------------------------------------------------------------------
C13_PulledToCeiling ==
    Compacted =>
        \A i \in 1..Len(result) :
            ~result[i].locked =>
                LET pos  == result[i].position
                    rise == [pos EXCEPT !.y = pos.y - 1]
                IN  \/ pos.y <= 0
                    \/ pos.x < 0
                    \/ pos.x + pos.w > js_config.columns
                    \/ \E j \in 1..Len(result) :
                          j # i /\ Overlap(rise, result[j].position)

\* A widget pulled up that rests, below row 0, on an unlocked widget which
\* itself was pulled up.
C13_Witness ==
    /\ Compacted /\ previous = None
    /\ \E i, j \in 1..Len(result) :
          /\ i # j /\ ~result[i].locked /\ ~result[j].locked
          /\ result[i].position.y > 0
          /\ result[i].position.y < ById(js_widgets, result[i].id).position.y
          /\ result[j].position.y < ById(js_widgets, result[j].id).position.y
          /\ Overlap([result[i].position EXCEPT !.y = @ - 1], result[j].position)

\* ------------------------------------------------------------------------
\* C14  Order of compaction: for an input without overlaps, when widgets a
\* and b share a column and a is above b in the input, a is entirely above
\* b in the output of non-float optimize_layout (a.y + a.h <= b.y).
\* ------------------------------------------------------------------------
ShareColumn(a, b) == a.x < b.x + b.w /\ b.x < a.x + a.w

C14_UpperStaysAbove ==
    (Compacted /\ PairwiseDisjoint(call_widgets)) =>
        \A i, j \in 1..Len(call_widgets) :
            LET a == call_widgets[i].position
                b == call_widgets[j].position
            IN  (i # j /\ ShareColumn(a, b) /\ a.y < b.y)
                    => ById(result, call_widgets[i].id).position.y + a.h
                          <= ById(result, call_widgets[j].id).position.y

\* The lower widget comes first in the caller's list, both are unlocked and
\* both are pulled up, the lower one as far as the upper one lets it.
C14_Witness ==
    /\ Compacted /\ previous = None /\ PairwiseDisjoint(js_widgets)
    /\ \E i, j \in 1..Len(js_widgets) :
          /\ j < i
          /\ ~js_widgets[i].locked /\ ~js_widgets[j].locked
          /\ ShareColumn(js_widgets[i].position, js_widgets[j].position)
          /\ js_widgets[i].position.y < js_widgets[j].position.y
          /\ Moved(js_widgets[i].id) /\ Moved(js_widgets[j].id)
          /\ ById(result, js_widgets[i].id).position.y + js_widgets[i].position.h
                = ById(result, js_widgets[j].id).position.y


\* ------------------------------------------------------------------------
\* Vocabulary of the best-position properties
\* ------------------------------------------------------------------------
\* The cell lies in the rectangle.
Covers(pos, c) ==
    /\ pos.x <= c[1] /\ c[1] < pos.x + pos.w
    /\ pos.y <= c[2] /\ c[2] < pos.y + pos.h

\* The new widget fits at (x, y): inside the columns, on no cell of an
\* existing widget, locked or not.
Placeable(x, y) ==
    LET pos == Position(x, y, js_new_widget.position.w, js_new_widget.position.h)
    IN  /\ x >= 0 /\ y >= 0 /\ x + pos.w <= js_config.columns
        /\ \A c \in cells(pos) :
              \A i \in 1..Len(js_widgets) : ~Covers(js_widgets[i].position, c)

ScanX == 0..(js_config.columns - js_new_widget.position.w)

\* Some position of the scan is free.
SomeFree == \E x \in ScanX : \E y \in 0..(SearchRows - 1) : Placeable(x, y)

\* ------------------------------------------------------------------------
\* C15  When some position is free, find_best_position returns the first
\* free position in row-major order: the smallest y of 0..999 with a
\* placeable x and the smallest such x of 0..columns - w, every existing
\* widget counting as occupied; the result has the w and h of the new widget
\* and does not depend on the x and y the new widget came with.
\* ------------------------------------------------------------------------
C15_FirstFreeInRowMajorOrder ==
    (op = "find_best_position" /\ SomeFree) =>
        /\ result.w = js_new_widget.position.w
        /\ result.h = js_new_widget.position.h
        /\ result.x \in ScanX
        /\ result.y \in 0..(SearchRows - 1)
        /\ Placeable(result.x, result.y)
        /\ \A x \in ScanX : \A y \in 0..(result.y - 1) : ~Placeable(x, y)
        /\ \A x \in 0..(result.x - 1) : ~Placeable(x, result.y)

\* A position found behind a full row 0 and an occupied first column, for a
\* new widget that came with another position; a locked and an unlocked
\* widget are in the way.
C15_Witness ==
    /\ op = "find_best_position" /\ SomeFree
    /\ result.x > 0 /\ result.y > 0
    /\ js_new_widget.position.x # result.x
    /\ js_new_widget.position.y # result.y
    /\ \E i, j \in 1..Len(js_widgets) :
          /\ js_widgets[i].locked /\ ~js_widgets[j].locked
          /\ Covers(js_widgets[j].position, <<0, result.y>>)
          /\ Covers(js_widgets[i].position, <<result.x, 0>>)

\* ------------------------------------------------------------------------
\* C16  When no position of the scan can be placed (w > columns included,
\* where no x is tried), find_best_position returns the sentinel
\* {x: 0, y: 1000, w, h} with the w and h of the new widget.
\* ------------------------------------------------------------------------
C16_SentinelWhenNoFreeSlot ==
    (op = "find_best_position" /\ ~SomeFree) =>
        result = Position(0, SearchRows, js_new_widget.position.w, js_new_widget.position.h)

\* Every row of the scan is occupied, for a new widget that fits between
\* the columns and came with an x other than 0.
C16_Witness ==
    /\ op = "find_best_position" /\ ~SomeFree
    /\ ScanX # {}
    /\ js_new_widget.position.x > 0
    /\ result.y = SearchRows

\* ------------------------------------------------------------------------
\* C17  Float mode disables compaction for drag handling too: when
\* config.float is true and the dragged id is present, resolve_conflicts
\* moves no widget to a smaller y.  The code reads config.float only on the
\* path where the dragged id is missing, so the statement is violated.
\* ------------------------------------------------------------------------
C17_FloatDragNeverPullsUp ==
    (Dragged /\ js_config.float) =>
        \A i \in 1..Len(js_widgets) :
            ById(result, js_widgets[i].id).position.y >= js_widgets[i].position.y

\* ------------------------------------------------------------------------
\* C18  Non-float optimize_layout and resolve_conflicts return the full
\* widget list and change nothing but y coordinates: the output holds the
\* widgets of the input (same ids, same count), each with its x, w, h and
\* locked flag unchanged, and the y of a locked or dragged widget is
\* unchanged as well.
\* ------------------------------------------------------------------------
C18_OnlyYChanges ==
    (op \in {"optimize_layout", "resolve_conflicts"} /\ ~js_config.float) =>
        /\ Len(result) = Len(call_widgets)
        /\ Ids(result) = Ids(call_widgets)
        /\ \A i \in 1..Len(call_widgets) :
              LET a == call_widgets[i]
                  b == ById(result, a.id)
              IN  /\ b.locked = a.locked
                  /\ b.position.x = a.position.x
                  /\ b.position.w = a.position.w
                  /\ b.position.h = a.position.h
                  /\ (a.locked \/ (Dragged /\ a.id = dragged_widget_id))
                        => b.position.y = a.position.y

\* A drag among widgets of different x and w: a locked widget is present, an
\* unlocked one that is not dragged ends on another row, and it differs from
\* the dragged widget in x or w.
C18_Witness ==
    /\ Dragged /\ ~js_config.float
    /\ \E i, j \in 1..Len(js_widgets) :
          /\ js_widgets[i].locked
          /\ ~js_widgets[j].locked /\ js_widgets[j].id # dragged_widget_id
          /\ Moved(js_widgets[j].id)
          /\ \/ js_widgets[j].position.x # ById(js_widgets, dragged_widget_id).position.x
             \/ js_widgets[j].position.w # ById(js_widgets, dragged_widget_id).position.w

\* ------------------------------------------------------------------------
\* C20  config.gap and config.static_grid have no influence on placement:
\* for each of the three operations, the result of the call is the result
\* of the same call under every configuration that differs from the one
\* passed in gap and static_grid only.
\* ------------------------------------------------------------------------
\* The configurations that differ from config in gap and static_grid at most
SameButGap(config) ==
    {c \in GapConfigs : c.columns = config.columns /\ c.float = config.float}

C20_GapAndStaticGridIgnored ==
    \A c \in SameButGap(js_config) :
        /\ op = "optimize_layout" => result = optimize_layout(call_widgets, c)
        /\ op = "resolve_conflicts"
              => result = resolve_conflicts(js_widgets, c, dragged_widget_id)
        /\ op = "find_best_position"
              => result = find_best_position(js_widgets, js_new_widget, c)

\* A position found next to an existing widget under a configuration with a
\* gap and static_grid set.
C20_Witness ==
    /\ op = "find_best_position"
    /\ js_config.gap > 0 /\ js_config.static_grid
    /\ Len(js_widgets) > 0
    /\ result.x > 0 /\ result.y < SearchRows

\* ------------------------------------------------------------------------
\* C21  The three operations are total over well-typed input: for integer
\* fields that are arbitrary i32 values no call evaluates a sum or a
\* difference (x + w, y + h, y - 1, columns - w, columns - w + 1,
\* dragged.y + dragged.h) that leaves the signed 32-bit range.  Violated: a
\* widget at x = i32::MAX makes x + w leave the range.
\* ------------------------------------------------------------------------
C21_ArithmeticStaysInRange ==
    op # "idle" => ~result.overflow

\* ------------------------------------------------------------------------
\* Vocabulary of the deserialization property
\* ------------------------------------------------------------------------
WellFormedWidget(js) ==
    js.kind = "object" /\ {"id", "position", "locked"} \subseteq DOMAIN js.fields

WellFormedList(js) ==
    js.kind = "array" /\ \A i \in 1..Len(js.items) : WellFormedWidget(js.items[i])

WellFormedConfig(js) == js.kind = "object"

\* The parse failures of the arguments of the call
ParseFailures ==
    (IF WellFormedList(js_widgets) THEN {} ELSE {from_value_widgets(js_widgets).error})
    \cup (IF WellFormedConfig(js_config) THEN {} ELSE {from_value_config(js_config).error})
    \cup (IF op # "find_best_position" \/ WellFormedWidget(js_new_widget)
          THEN {} ELSE {from_value_widget(js_new_widget).error})

LoopsReturned ==
    op \in {"find_highest_position returned", "find_best_position returned"}

\* Where the loop variables are while the loops run
LoopsInBounds ==
    /\ op = "find_highest_position" =>
          /\ result.y <= js_new_widget.position.y
          /\ js_new_widget.position.y - result.y <= IntMax(js_new_widget.position.y, 0)
    /\ op = "find_best_position" =>
          /\ result.y \in 0..SearchRows
          /\ result.x \in 0..IntMax(x_range_end, 0)

\* What one iteration does to the loop variables
LoopsProgress ==
    /\ (op = "find_highest_position" /\ op' = op) => result'.y = result.y - 1
    /\ (op = "find_best_position" /\ op' = op) =>
          \/ result'.y = result.y /\ result'.x = result.x + 1
          \/ result'.y = result.y + 1 /\ result'.x = 0

C23_EveryCallTerminates ==
    /\ []LoopsInBounds
    /\ [][LoopsProgress]_vars
    /\ <>LoopsReturned

\* The scan has tested a candidate in each of the 1000 rows and returned the
\* fallback.
C23_Witness ==
    /\ op = "find_best_position returned"
    /\ x_range_end > 0
    /\ result.y = SearchRows

\* ------------------------------------------------------------------------
\* C27  Non-float optimize_layout never creates an overlap: two widgets
\* that overlap in the output already overlapped in the input (so an input
\* without overlap gives an output without overlap), and no unlocked widget
\* is moved onto a locked widget.
\* ------------------------------------------------------------------------
C27_NoNewOverlap ==
    Compacted =>
        \A i, j \in 1..Len(call_widgets) :
            LET a == call_widgets[i]
                b == call_widgets[j]
            IN  i # j =>
                  /\ Overlap(ById(result, a.id).position, ById(result, b.id).position)
                        => Overlap(a.position, b.position)
                  /\ (~a.locked /\ b.locked /\ Moved(a.id))
                        => ~Overlap(ById(result, a.id).position, b.position)

\* A widget is pulled up to a stop under a locked widget it did not touch
\* before, while two other widgets of the input overlap.
C27_Witness ==
    /\ Compacted /\ previous = None
    /\ \E i, j \in 1..Len(js_widgets) :
          /\ ~js_widgets[i].locked /\ js_widgets[j].locked
          /\ Moved(js_widgets[i].id)
          /\ ~Overlap(js_widgets[i].position, js_widgets[j].position)
          /\ ById(result, js_widgets[i].id).position.y
                = js_widgets[j].position.y + js_widgets[j].position.h
          /\ ShareColumn(js_widgets[i].position, js_widgets[j].position)
    /\ ~PairwiseDisjoint(js_widgets)

\* ------------------------------------------------------------------------
\* Vocabulary of the insertion property
\* ------------------------------------------------------------------------
\* Non-float optimize_layout leaves every widget of the list where it is.
Settled(list) ==
    LET out == optimize_layout(list, [js_config EXCEPT !.float = FALSE])
    IN  /\ Ids(out) = Ids(list)
        /\ \A i \in 1..Len(list) : ById(out, list[i].id).position = list[i].position

\* The layout with the new widget at the position that was returned
Inserted == Append(js_widgets, [js_new_widget EXCEPT !.position = result])

\* A call of find_best_position on a settled layout without overlap, for a
\* widget that fits between the columns, that did not end in the fallback
BestOnSettled ==
    /\ op = "find_best_position"
    /\ PairwiseDisjoint(js_widgets) /\ Settled(js_widgets)
    /\ ~js_new_widget.locked
    /\ js_new_widget.position.w <= js_config.columns
    /\ result.y < SearchRows

\* ------------------------------------------------------------------------
\* C28  Inserting at the best position preserves a settled layout: when the
\* layout has no overlap and is unchanged by non-float optimize_layout, and
\* an unlocked widget with 1 <= w <= columns is added at the position
\* find_best_position returned (not the fallback), the new layout has no
\* overlap and is unchanged by optimize_layout.
\* ------------------------------------------------------------------------
C28_InsertionKeepsSettled ==
    BestOnSettled => (PairwiseDisjoint(Inserted) /\ Settled(Inserted))

\* The new widget lands below row 0 and right of column 0 in a settled
\* layout of a locked and an unlocked widget.
C28_Witness ==
    /\ BestOnSettled
    /\ result.y > 0 /\ result.x > 0
    /\ \E i, j \in 1..Len(js_widgets) : js_widgets[i].locked /\ ~js_widgets[j].locked

\* ------------------------------------------------------------------------
\* C29  find_highest_position(pos) returns a position with the x, w, h of
\* pos and a y' <= pos.y such that can_place_at holds at every y of
\* [y', pos.y) and y' <= 0 or can_place_at fails at y' - 1: it stops under
\* the first blocked row, and the position it starts from is not tested.
\* ------------------------------------------------------------------------
\* pos in row y
AtRow(pos, y) == [pos EXCEPT !.y = y]

C29_HighestReachableRow ==
    op = "find_highest_position returned" =>
        LET pos == js_new_widget.position
        IN  /\ result.x = pos.x /\ result.w = pos.w /\ result.h = pos.h
            /\ result.y <= pos.y
            /\ \A y \in result.y..(pos.y - 1) : can_place_at(registered_grid, AtRow(pos, y))
            /\ result.y <= 0 \/ ~can_place_at(registered_grid, AtRow(pos, result.y - 1))

\* The position it starts from cannot be placed; it is pulled up all the same
\* and stops under a blocked row.
C29_Witness ==
    /\ op = "find_highest_position returned"
    /\ LET pos == js_new_widget.position
       IN  /\ ~can_place_at(registered_grid, pos)
           /\ 0 < result.y /\ result.y < pos.y

\* ------------------------------------------------------------------------
\* C30  can_place_at(pos) is true exactly when pos.x >= 0, pos.y >= 0,
\* pos.x + pos.w <= columns and no cell of the rectangle of pos has been
\* registered; registering a rectangle twice leaves the grid as after
\* registering it once; registering one more rectangle never turns a
\* position that cannot be placed into one that can.
\* ------------------------------------------------------------------------
\* No cell of the rectangle lies in a rectangle that was registered.
NoCellRegistered(pos) ==
    \A x \in pos.x..(pos.x + pos.w - 1) : \A y \in pos.y..(pos.y + pos.h - 1) :
        \A i \in 1..Len(js_widgets) : ~Covers(js_widgets[i].position, <<x, y>>)

C30_PlaceableIffInGridAndFree ==
    op \in {"find_highest_position", "find_highest_position returned"} =>
        LET grid == registered_grid
            more == register_occupied(grid, result)
        IN  /\ \A pos \in {result, AtRow(result, result.y - 1)} :
                  can_place_at(grid, pos)
                     <=> /\ pos.x >= 0 /\ pos.y >= 0
                         /\ pos.x + pos.w <= js_config.columns
                         /\ NoCellRegistered(pos)
            /\ register_occupied(more, result) = more
            /\ \A i \in 1..Len(js_widgets) :
                  register_occupied(grid, js_widgets[i].position) = grid
            /\ \A pos \in Positions : can_place_at(more, pos) => can_place_at(grid, pos)

\* The loop has stopped below row 0 at a test position inside the columns:
\* a registered cell is in the way; the position it stopped at can be placed
\* until it is registered itself.
C30_Witness ==
    /\ op = "find_highest_position returned"
    /\ result.y > 0 /\ result.x >= 0 /\ result.x + result.w <= js_config.columns
    /\ ~can_place_at(registered_grid, AtRow(result, result.y - 1))
    /\ can_place_at(registered_grid, result)
    /\ ~can_place_at(register_occupied(registered_grid, result), result)

\* What get_grid_config returns for a container when the storage answers
ConfigOf(store, config_id) ==
    get_grid_config(StorageManager_get(store, config_id, TRUE), config_id).value

BlocksOf(store, config_id) ==
    {ConfigOf(store, config_id).blocks[k] : k \in 1..Len(ConfigOf(store, config_id).blocks)}

\* The block carries the fields the blockConfig gave.
Carries(block, block_config) ==
    /\ "type" \in DOMAIN block_config => block.block_type = block_config.type
    /\ "x" \in DOMAIN block_config => block.x = block_config.x
    /\ "w" \in DOMAIN block_config => block.w = block_config.w

\* Call i returns a blockId in this step.
ReturnsBlockId(i) ==
    /\ calls[i].pc # "returned"
    /\ calls'[i].pc = "returned"
    /\ calls'[i].returned.ok

\* C24: when a grid.block.add returns a blockId for a container, the
\* configuration get_grid_config then returns for the container holds exactly
\* one block with that id, carrying the fields of the blockConfig, and every
\* block it returned before.
C24_AddedBlockPersists ==
    [][\A i \in 1..MaxCalls :
          ReturnsBlockId(i) =>
             LET c == calls'[i].config_id
                 blocks == ConfigOf(storage', c).blocks
                 mine == {k \in 1..Len(blocks) : blocks[k].id = calls'[i].block_id}
             IN  /\ Cardinality(mine) = 1
                 /\ \A k \in mine : Carries(blocks[k], calls'[i].payload.blockConfig)
                 /\ BlocksOf(storage, c) \subseteq BlocksOf(storage', c)
                 /\ Len(blocks) = Len(ConfigOf(storage, c).blocks) + 1]_vars

\* The stored value has the shape of a GridConfig.
IsGridConfigValue(data) ==
    data.kind = "object" /\ {"blocks", "config_id"} \subseteq DOMAIN data.fields

\* The storage gave get_grid_config nothing to return: an error, no entity,
\* or an entity that is no GridConfig
NothingStored(got) ==
    \/ ~got.ok
    \/ got.value = None
    \/ got.value # None /\ ~IsGridConfigValue(got.value[1])

\* C25: get_grid_config always returns Ok; when nothing is stored under the
\* id, the storage fails or the stored value does not parse, the value is a
\* configuration with the requested config_id and no blocks.
C25_MissingConfigIsDefault ==
    loaded.pc = "returned" =>
       /\ loaded.returned.ok
       /\ NothingStored(loaded.got) =>
             /\ loaded.returned.value.config_id = loaded.config_id
             /\ loaded.returned.value.blocks = <<>>

\* A storage error while the backend holds a configuration with a block
C25_Witness ==
    /\ loaded.pc = "returned"
    /\ ~loaded.got.ok
    /\ ConfigOf(storage, loaded.config_id).blocks # <<>>
    /\ loaded.returned = Ok(create_default_config(loaded.config_id))

\* An execute_action returned in this step.
Executed == dispatched' # dispatched

\* No registered handler takes the action type, exactly or as a wildcard.
NoHandlerMatches(action_type) ==
    /\ action_type \notin DOMAIN action_handlers
    /\ \A pattern \in DOMAIN action_handlers : ~wildcard_matches(pattern, action_type)

\* The handler registered under the type ran, and the call returned an
\* ActionResult whose success flag tells whether the handler returned Ok.
HandlerDecided(call) ==
    /\ call.invoked = Some(call.action.action_type)
    /\ call.returned.ok
    /\ call.returned.value.success <=> action_handlers[call.action.action_type] = "Ok"

\* The call failed with HandlerNotFound and no handler ran.
FailedHandlerNotFound(call) ==
    /\ call.invoked = None
    /\ ~call.returned.ok
    /\ call.returned.error.kind = "HandlerNotFound"

\* C26 as stated: an action whose exact type has a registered handler runs
\* that handler and returns an ActionResult with success = (handler returned
\* Ok); an action no handler matches fails with HandlerNotFound and runs none.
C26_ExactHandlerDecides ==
    [][Executed =>
          /\ dispatched'.action.action_type \in DOMAIN action_handlers
                => HandlerDecided(dispatched')
          /\ NoHandlerMatches(dispatched'.action.action_type)
                => FailedHandlerNotFound(dispatched')]_vars

\* The action passes validate_action and every before_execute.
Admitted(action) ==
    /\ action.action_type # <<>>
    /\ action.payload_len <= max_payload_size
    /\ \A k \in 1..Len(middleware_stack) : middleware_stack[k].before_ok

\* C26, amended: the same for an action that passes validation (non-empty
\* type, payload of at most max_payload_size bytes) and every before_execute,
\* the ActionResult being returned when every after_execute passes as well;
\* an action that is not admitted fails and runs no handler.
C26_AdmittedHandlerDecides ==
    [][Executed =>
          LET call == dispatched'
              action_type == call.action.action_type
          IN  /\ Admitted(call.action) /\ action_type \in DOMAIN action_handlers
                    => /\ call.invoked = Some(action_type)
                       /\ (\A k \in 1..Len(middleware_stack) : middleware_stack[k].after_ok)
                             => HandlerDecided(call)
              /\ Admitted(call.action) /\ NoHandlerMatches(action_type)
                    => FailedHandlerNotFound(call)
              /\ ~Admitted(call.action)
                    => call.invoked = None /\ ~call.returned.ok]_vars

\* A handler that returned an error behind a middleware stack: the call
\* returns Ok with success = false
C26_Witness ==
    /\ dispatched.pc = "returned"
    /\ middleware_stack # <<>>
    /\ dispatched.invoked = Some(dispatched.action.action_type)
    /\ dispatched.returned.ok
    /\ ~dispatched.returned.value.success

\* Every dispatched grid.block.add has returned.
AllReturned == \A i \in 1..MaxCalls : calls[i].pc = "returned"

\* The stored configuration of the call's container holds the call's block.
Reflected(i) ==
    \E block \in BlocksOf(storage, calls[i].config_id) :
       /\ block.id = calls[i].block_id
       /\ Carries(block, calls[i].payload.blockConfig)

\* C31: once every concurrent grid.block.add has returned, the stored
\* configuration reflects each one that returned success, whatever the
\* interleaving of their read-config and save-config steps.
C31_NoLostUpdate ==
    AllReturned => \A i \in 1..MaxCalls : calls[i].returned.ok => Reflected(i)

\* ------------------------------------------------------------------------
\* Vocabulary of the reordering property.  The first call got the widgets
\* in the order of their ids.
\* ------------------------------------------------------------------------
SameKey(a, b) == a.position.x = b.position.x /\ a.position.y = b.position.y

\* Widgets with the same (x, y) are in the order the first call had them.
KeepsTies(list) ==
    \A i, j \in 1..Len(list) :
        (i < j /\ SameKey(list[i], list[j])) => list[i].id < list[j].id

DistinctKeys(list) ==
    \A i, j \in 1..Len(list) : i # j => ~SameKey(list[i], list[j])

\* C32: for a non-float config the position optimize_layout gives each
\* widget id is the same for every order of the input list that keeps the
\* widgets with equal (x, y) in their relative order; with no two widgets
\* at the same (x, y) that is every order.
C32_OrderOnlyMattersBetweenTies ==
    (op = "optimize_layout reordered" /\ ~js_config.float /\ KeepsTies(js_widgets)) =>
        \A k \in 1..Len(js_widgets) :
            ById(result, js_widgets[k].id).position
               = ById(previous, js_widgets[k].id).position

\* Three widgets at different (x, y), passed last-first, one of them pulled up
C32_Witness ==
    /\ op = "optimize_layout reordered" /\ ~js_config.float
    /\ Len(js_widgets) = MaxWidgets
    /\ DistinctKeys(js_widgets)
    /\ \A k \in 1..(Len(js_widgets) - 1) : js_widgets[k].id > js_widgets[k + 1].id
    /\ \E k \in 1..Len(js_widgets) :
          ById(result, js_widgets[k].id).position # js_widgets[k].position

\* ------------------------------------------------------------------------
\* Vocabulary of the collision property
\* ------------------------------------------------------------------------
\* The two rectangles have a grid cell in common.
ShareCell(a, b) ==
    \E x \in a.x..(a.x + a.w - 1) : \E y \in a.y..(a.y + a.h - 1) : Covers(b, <<x, y>>)

\* b would be placeable on an empty grid.
InsideColumns(b) == b.x >= 0 /\ b.y >= 0 /\ b.x + b.w <= js_config.columns

\* The grid with a registered and nothing else
GridWith(a) == register_occupied(OccupiedGrid_new(js_config.columns), a)

\* One rectangle ends where the other begins, in x or in y.
TouchAlongEdge(a, b) ==
    \/ a.x + a.w = b.x \/ b.x + b.w = a.x
    \/ a.y + a.h = b.y \/ b.y + b.h = a.y

\* C33: for the positions a, b of any two widgets of the list,
\* blocks_collide(a, b) holds exactly when the rectangles share a cell; for
\* b inside the grid, exactly when b cannot be placed on the grid that holds
\* only a; it is symmetric, and rectangles that touch along an edge do not
\* collide.
C33_CollideIffShareCell ==
    op = "resolve_conflicts" =>
        \A i, j \in 1..Len(js_widgets) :
            LET a == js_widgets[i].position
                b == js_widgets[j].position
            IN  /\ blocks_collide(a, b) <=> ShareCell(a, b)
                /\ InsideColumns(b) => (blocks_collide(a, b) <=> ~can_place_at(GridWith(a), b))
                /\ blocks_collide(a, b) <=> blocks_collide(b, a)
                /\ TouchAlongEdge(a, b) => ~blocks_collide(a, b)

\* A dragged widget with one widget on its cells and one that touches its
\* lower edge, both inside the grid
C33_Witness ==
    /\ op = "resolve_conflicts"
    /\ dragged_widget_id # MissingId
    /\ \E i, j \in 1..Len(js_widgets) :
          LET d == ById(js_widgets, dragged_widget_id).position
              a == js_widgets[i].position
              b == js_widgets[j].position
          IN  /\ js_widgets[i].id # dragged_widget_id /\ js_widgets[j].id # dragged_widget_id
              /\ InsideColumns(a) /\ InsideColumns(b)
              /\ blocks_collide(a, d) /\ ~can_place_at(GridWith(d), a)
              /\ d.y + d.h = b.y /\ ~blocks_collide(b, d) /\ can_place_at(GridWith(d), b)

\* ------------------------------------------------------------------------
\* Vocabulary of the order of the returned list
\* ------------------------------------------------------------------------
IdsInOrder(list) == [k \in 1..Len(list) |-> list[k].id]

IndexOf(list, id) == CHOOSE k \in 1..Len(list) : list[k].id = id

\* In the input, a comes before b by (y, x), or they tie and a is listed first.
InputBefore(input, a, b) ==
    LET pa == ById(input, a).position
        pb == ById(input, b).position
    IN  \/ pa.y < pb.y
        \/ pa.y = pb.y /\ pa.x < pb.x
        \/ pa.y = pb.y /\ pa.x = pb.x /\ IndexOf(input, a) < IndexOf(input, b)

\* The call keeps the list in place: float-mode optimize_layout, or
\* resolve_conflicts that found the dragged id (or did not, in float mode).
KeepsListInPlace ==
    \/ op = "optimize_layout" /\ js_config.float
    \/ op = "resolve_conflicts" /\ dragged_widget_id # MissingId
    \/ op = "resolve_conflicts" /\ js_config.float

\* The call sorts the list: non-float optimize_layout, directly or from
\* resolve_conflicts with a missing dragged id.
SortsList ==
    \/ op = "optimize_layout" /\ ~js_config.float
    \/ op = "resolve_conflicts" /\ dragged_widget_id = MissingId /\ ~js_config.float

\* C34: float-mode optimize_layout and resolve_conflicts with the dragged id
\* present return the widgets in the order of the input list; non-float
\* optimize_layout, and resolve_conflicts with a missing dragged id through
\* it, returns them by ascending input (y, x), ties in input order.
C34_OrderOfReturnedList ==
    /\ KeepsListInPlace => IdsInOrder(result) = IdsInOrder(call_widgets)
    /\ SortsList =>
          /\ Len(result) = Len(call_widgets)
          /\ \A k, l \in 1..Len(result) :
                k < l => InputBefore(call_widgets, result[k].id, result[l].id)

\* The sort moved the first widget of the input away from the front, and two
\* widgets with the same (x, y) came out in input order.
C34_Witness ==
    /\ op = "optimize_layout" /\ ~js_config.float /\ previous = None
    /\ Len(js_widgets) = MaxWidgets
    /\ result[1].id # js_widgets[1].id
    /\ \E k, l \in 1..Len(result) :
          /\ k < l
          /\ SameKey(ById(js_widgets, result[k].id), ById(js_widgets, result[l].id))

\* The action type lies under the pattern `prefix.*`: it begins with the
\* prefix and the dot.
UnderPrefix(pattern, action_type) ==
    /\ ends_with(pattern, <<".", "*">>)
    /\ starts_with(action_type, SubSeq(pattern, 1, Len(pattern) - 1))

\* C36: a handler registered under `prefix.*` that runs for an action of
\* another type runs only when no handler is registered under the action's
\* exact type, and only for action types that begin with `prefix.`.
C36_WildcardTakesOnlyItsPrefix ==
    [][(Executed /\ dispatched'.invoked # None
          /\ dispatched'.invoked # Some(dispatched'.action.action_type)) =>
             /\ dispatched'.action.action_type \notin DOMAIN action_handlers
             /\ UnderPrefix(dispatched'.invoked[1], dispatched'.action.action_type)]_vars

\* ------------------------------------------------------------------------
\* Vocabulary of the circuit-breaker property
\* ------------------------------------------------------------------------
FailureCount(breakers, name) ==
    IF name \in DOMAIN breakers THEN breakers[name].failure_count ELSE 0

\* failure_threshold failures or more have been recorded for the name since
\* the last recorded success, and no more than recovery_timeout has passed
\* since the last of them.
Recovering(name) ==
    /\ FailureCount(circuit_breakers, name) >= failure_threshold
    /\ now - circuit_breakers[name].last_failure[1] <= recovery_timeout

InProgress(run) == run.pc \notin {"idle", "returned"}

\* Call r of run is made in this step (its circuit-breaker check).
Called(r) == ~InProgress(runs[r]) /\ runs'[r] # runs[r]

Rejected(run) ==
    /\ run.pc = "returned" /\ ~run.executed
    /\ ~run.result.ok /\ run.result.error.kind = "CircuitBreakerOpen"

\* Call r records its outcome in this step.
Records(r) == runs[r].pc = "record" /\ runs'[r].pc = "returned"

\* Call r returns in this step.
Returns(r) == runs'[r] # runs[r] /\ runs'[r].pc = "returned"

\* The failure count is the number of failures recorded since the last
\* recorded success, and a recorded success closes the breaker.
CountsFailures(r) ==
    LET name == runs[r].runner.operation_name
    IN  IF runs[r].result.ok
        THEN /\ FailureCount(circuit_breakers', name) = 0
             /\ name \in DOMAIN circuit_breakers => circuit_breakers'[name].state = "Closed"
             /\ ~is_circuit_breaker_open(circuit_breakers', name, now)
        ELSE /\ FailureCount(circuit_breakers', name) = FailureCount(circuit_breakers, name) + 1
             /\ circuit_breakers'[name].last_failure = Some(now)

\* A call made while the breaker of its name is recovering is rejected and
\* executes nothing; any other call is let through.
RejectsWhileRecovering(r) ==
    LET name == runs'[r].runner.operation_name
    IN  IF Recovering(name)
        THEN Rejected(runs'[r]) /\ active_operations' = active_operations
        ELSE runs'[r].pc = "acquire"

\* C35 as stated: a call of run made once failure_threshold failures are
\* recorded for its name without a success, and before recovery_timeout has
\* passed since the last, is rejected with CircuitBreakerOpen and executes
\* nothing; a recorded success resets the count and closes the breaker; and
\* when run returns, its operation id is not among the active operations.
C35_BreakerRejectsAndRunsDeregister ==
    [][\A r \in 1..MaxRuns :
          /\ Called(r) => RejectsWhileRecovering(r)
          /\ Records(r) => CountsFailures(r)
          /\ Returns(r) => runs'[r].runner.operation_id \notin active_operations']_vars

\* No other call of run on the same runner is in progress.
RunnerNotShared(r) ==
    \A q \in (1..MaxRuns) \ {r} :
        InProgress(runs'[q]) => runs'[q].runner.operation_id # runs'[r].runner.operation_id

\* C35, amended: the same, the operation id being gone from the active
\* operations when run returns unless another call of run on the same
\* runner is in progress (the id belongs to the runner, not to the call).
C35_BreakerRejectsAndRunnersDeregister ==
    [][\A r \in 1..MaxRuns :
          /\ Called(r) => RejectsWhileRecovering(r)
          /\ Records(r) => CountsFailures(r)
          /\ (Returns(r) /\ RunnerNotShared(r))
                => runs'[r].runner.operation_id \notin active_operations']_vars

\* A call rejected exactly recovery_timeout after the last of the failures
\* that opened the breaker, while a call for the other name is in progress
C35_Witness ==
    \E r, q \in 1..MaxRuns :
       /\ Rejected(runs[r])
       /\ FailureCount(circuit_breakers, runs[r].runner.operation_name) >= failure_threshold
       /\ runs[r].start_time
             = circuit_breakers[runs[r].runner.operation_name].last_failure[1] + recovery_timeout
       /\ InProgress(runs[q])
       /\ runs[q].runner.operation_name # runs[r].runner.operation_name

=============================================================================
